---- MODULE Spec2Model ----
(***************************************************************************)
(* Reward selection and redemption engine of the gym back end: the prize   *)
(* catalog (models/Prize.js), the won-prize lifecycle                       *)
(* (models/PrizeWinning.js), the scan gate (models/QRCode.js) and the      *)
(* prize wheel (models/Roulette.js).                                       *)
(*                                                                         *)
(* Persistence is Sequelize over Postgres.  A model instance is an         *)
(* in-memory copy of a row; save() issues UPDATE ... SET <changed fields>  *)
(* WHERE id = ..., with no version column and no enclosing transaction.    *)
(* Every await on a query is a point where another request handler may     *)
(* run, so each action below is one database statement together with the   *)
(* synchronous JavaScript that leads up to it.                             *)
(*                                                                         *)
(* A nullable column is modelled as a set: {} is NULL, {v} is the value v. *)
(***************************************************************************)
EXTENDS Naturals, Integers, Sequences, FiniteSets, TLC

\* ------------------------------------------------------------------ bounds
MaxTime == 1          \* the clock runs from StartTime to StartTime + MaxTime
MaxCalls == 2         \* lifecycle method calls made in one behaviour
MaxUses == 3          \* largest max_uses a scan gate is given
MaxAttempts == 4      \* use() calls made on the scan gate
TicksPerDay == 3      \* clock ticks in one calendar day
StartTime == 20       \* first clock value: a Saturday, last tick of the day
MaxWheels == 3        \* rows table roulettes can hold
MaxSaves == 3         \* Roulette save() calls a handler makes
GridStep == 500       \* distance of two draws of Math.random() * 100, in
                      \* hundredths of a percent
MaxSectors == 3       \* sectors of a wheel selectPrize() is called on

Drawers == {"d1", "d2"}          \* draw requests, each made once
Handles == {"h1", "h2"}          \* request handlers holding a loaded instance
Scanners == {"s1", "s2"}         \* request handlers holding a loaded scan gate
Clients == {"c1", "c2"}
Users == {"staff"}
Reasons == {"fraud"}
Codes == {"K1", "K2"}            \* the redemption codes Math.random can spell
Savers == {"v1", "v2"}           \* request handlers saving a Roulette
Issuers == {"redemption", "qr"}  \* generateRedemptionCode, generateUniqueCode
Spinners == {"g1"}               \* requests for a spin of a wheel

NoUser == "null"
NoReason == "null"
NoCode == "null"

\* ------------------------------------------------------------------- state
VARIABLES
  now,        \* new Date(), in ticks
  prize,      \* the row of table prizes the draws and records refer to
  clients,    \* the rows of table clients this core reads
  winnings,   \* table prize_winnings: a sequence of rows, the id is the index
  dpc,        \* per draw request: where it stands
  dloc,       \* per draw request: its local variables
  hpc,        \* per handler: where the running method stands
  inst,       \* per handler: the loaded PrizeWinning instance
  hloc,       \* per handler: the method's arguments, clock reading and Prize
  outcome,    \* per handler: how its last method call ended
  calls,      \* per handler: lifecycle method calls started so far
  effects,    \* per won-prize id: runs of the applyToClient side effect for it
  lateEffect, \* per won-prize id: a side effect ran while its row was cancelled
  notified,   \* per won-prize id: notifications created, by message type
  qr,         \* the row of table qr_codes of the scan gate
  qpc,        \* per gate handler: where its use() call stands
  qinst,      \* per gate handler: the loaded QRCode instance
  qloc,       \* per gate handler: its use() call's client and clock reading
  qout,       \* per gate handler: what its last use() call returned or threw
  attempts,   \* per gate handler: use() calls made on the gate
  successes,  \* use() calls that went through
  wheels,     \* table roulettes: a sequence of rows, the id is the index
  wpc,        \* per saving handler: where its save() call stands
  wloc,       \* per saving handler: the Roulette instance it is saving
  wout,       \* per saving handler: how its last save() call ended
  saves,      \* per saving handler: save() calls started so far
  cfg,        \* sectors_config of the instance selectPrize() is called on:
              \* its sectors, and per slot the first slot holding the same
              \* object
  spun,       \* what the last selectPrize() call drew and returned
  issue,      \* per code issuer: where its generate loop stands
  spc,        \* per spin request: where it stands
  sloc,       \* per spin request: its wheel, client, clock reading, result
  roulette    \* per wheel id: the row of table roulettes a spin request reads

vars == <<now, prize, clients, winnings, dpc, dloc, hpc, inst, hloc, outcome,
          calls, effects, lateEffect, notified,
          qr, qpc, qinst, qloc, qout, attempts, successes,
          wheels, wpc, wloc, wout, saves, cfg, spun, issue, spc, sloc,
          roulette>>

wheelVars == <<wheels, wpc, wloc, wout, saves, cfg, spun>>
spinVars == <<spc, sloc, roulette>>
gateVars == <<qr, qpc, qinst, qloc, qout, attempts, successes>>
prizeVars == <<prize, clients, winnings, dpc, dloc, hpc, inst, hloc, outcome,
               calls, effects, lateEffect, notified>>

drawVars == <<dpc, dloc>>
handleVars == <<hpc, inst, hloc, outcome, calls>>

WinningIds == 1..Cardinality(Drawers)

\* -------------------------------------------------------------------- time
\* Date.getDay() of a tick: 0 is Sunday.
DayOf(t) == t \div TicksPerDay
GetDay(t) == DayOf(t) % 7
\* todayStart: setHours(0,0,0,0)
TodayStart(t) == DayOf(t) * TicksPerDay
\* weekStart: setDate(getDate() - getDay()); setHours(0,0,0,0)
WeekStart(t) == (DayOf(t) - GetDay(t)) * TicksPerDay

Tick ==
  /\ now < StartTime + MaxTime
  /\ now' = now + 1
  /\ UNCHANGED <<prizeVars, gateVars, wheelVars, issue, spinVars>>

\* ------------------------------------------------------------------- Prize
PrizeTypes == {"membership_days", "points", "discount_percentage"}

isAvailable_inclusive(p, t) ==
  IF ~p.is_active THEN [available |-> FALSE, reason |-> "Premio desactivado"]
  ELSE IF p.valid_from > t
    THEN [available |-> FALSE, reason |-> "Premio aun no valido"]
  ELSE IF \E u \in p.valid_until : u <= t
    THEN [available |-> FALSE, reason |-> "Premio expirado"]
  ELSE IF \E s \in p.stock_quantity : p.awarded_count >= s
    THEN [available |-> FALSE, reason |-> "Premio agotado"]
  ELSE [available |-> TRUE, reason |-> "none"]

\* Prize.prototype.isAvailable
isAvailable(p, t) ==
  IF ~p.is_active THEN [available |-> FALSE, reason |-> "Premio desactivado"]
  ELSE IF p.valid_from > t
    THEN [available |-> FALSE, reason |-> "Premio aun no valido"]
  ELSE IF \E u \in p.valid_until : u < t
    THEN [available |-> FALSE, reason |-> "Premio expirado"]
  ELSE IF \E s \in p.stock_quantity : p.awarded_count >= s
    THEN [available |-> FALSE, reason |-> "Premio agotado"]
  ELSE [available |-> TRUE, reason |-> "none"]

\* PrizeWinning.count({ where: { prize_id, created_at >= since } })
CountSince(since) ==
  Cardinality({i \in 1..Len(winnings) : winnings[i].created_at >= since})

\* PrizeWinning.count({ where: { client_id, prize_id } })
CountClient(c) ==
  Cardinality({i \in 1..Len(winnings) : winnings[i].client_id = c})

checkLimitsDay_strict(p, todayCount) ==
  IF \E m \in p.max_per_day : m # 0 /\ todayCount > m
    THEN [available |-> FALSE, reason |-> "Limite diario alcanzado"]
    ELSE [available |-> TRUE, reason |-> "none"]

\* Prize.prototype.checkLimits, daily part: max_per_day is falsy when null or 0
checkLimitsDay(p, todayCount) ==
  IF \E m \in p.max_per_day : m # 0 /\ todayCount >= m
    THEN [available |-> FALSE, reason |-> "Limite diario alcanzado"]
    ELSE [available |-> TRUE, reason |-> "none"]

\* Prize.prototype.checkLimits, weekly part
checkLimitsWeek(p, weekCount) ==
  IF \E m \in p.max_per_week : m # 0 /\ weekCount >= m
    THEN [available |-> FALSE, reason |-> "Limite semanal alcanzado"]
    ELSE [available |-> TRUE, reason |-> "none"]

\* Client.prototype.getAge compared with minimum_age: a null age compares as 0
AgeBelow(cl, min) == IF cl.age = {} THEN 0 < min ELSE \E a \in cl.age : a < min

checkClientEligibility_capFirst(p, cl, t, clientCount) ==
  IF \E m \in p.max_per_client : m # 0 /\ clientCount >= m
    THEN [eligible |-> FALSE, reason |-> "Limite por cliente alcanzado"]
  ELSE IF \E m \in p.minimum_age : m # 0 /\ AgeBelow(cl, m)
    THEN [eligible |-> FALSE, reason |-> "Edad minima requerida"]
  ELSE IF p.minimum_membership_days > 0
          /\ DayOf(t - cl.registration_date) < p.minimum_membership_days
    THEN [eligible |-> FALSE, reason |-> "Requiere dias de membresia"]
  ELSE IF \E m \in cl.membership_type : m \in p.excluded_membership_types
    THEN [eligible |-> FALSE, reason |-> "Tipo de membresia no elegible"]
  ELSE [eligible |-> TRUE, reason |-> "none"]

\* Prize.prototype.checkClientEligibility, for an existing client row cl
checkClientEligibility(p, cl, t, clientCount) ==
  IF \E m \in p.minimum_age : m # 0 /\ AgeBelow(cl, m)
    THEN [eligible |-> FALSE, reason |-> "Edad minima requerida"]
  ELSE IF p.minimum_membership_days > 0
          /\ DayOf(t - cl.registration_date) < p.minimum_membership_days
    THEN [eligible |-> FALSE, reason |-> "Requiere dias de membresia"]
  ELSE IF \E m \in cl.membership_type : m \in p.excluded_membership_types
    THEN [eligible |-> FALSE, reason |-> "Tipo de membresia no elegible"]
  ELSE IF \E m \in p.max_per_client : m # 0 /\ clientCount >= m
    THEN [eligible |-> FALSE, reason |-> "Limite por cliente alcanzado"]
  ELSE [eligible |-> TRUE, reason |-> "none"]

\* ------------------------------------------------------------ initial rows
\* Column defaults of table prizes (sequelize.define('Prize', ...)).
PrizeDefaults ==
  [is_active |-> TRUE, valid_from |-> 0, valid_until |-> {},
   type |-> "points", value |-> 0, stock_quantity |-> {}, awarded_count |-> 0,
   redeemed_count |-> 0, auto_apply |-> TRUE, expiration_days |-> {},
   max_per_client |-> {}, max_per_day |-> {}, max_per_week |-> {},
   minimum_membership_days |-> 0, excluded_membership_types |-> {},
   minimum_age |-> {}]

\* The client directory rows this core reads (models/Client.js), each with
\* its active ClientMembership: the type and the end date, in days.
ClientRows ==
  [c \in Clients |->
     [age |-> {30}, registration_date |-> 0, membership_type |-> {"basic"},
      end_date |-> {10}]]

\* Column defaults of table prize_winnings (sequelize.define('PrizeWinning')),
\* with the values PrizeWinning.create was given.
NewWinning(c, rv, exp, t, manual, code) ==
  [client_id |-> c, prize_id |-> "p1", qr_code_id |-> 0,
   prize_name |-> "name", prize_type |-> "points", prize_value |-> 0,
   prize_currency |-> "pts",
   status |-> "pending", created_at |-> t,
   applied_date |-> {}, redeemed_date |-> {},
   expires_date |-> exp, auto_applied |-> FALSE,
   manual_redemption_required |-> manual, redemption_code |-> code,
   requires_verification |-> rv, verified |-> FALSE,
   roulette_id |-> 0,
   verified_by_user_id |-> NoUser, verified_date |-> {},
   notification_sent |-> FALSE,
   cancelled_date |-> {}, cancelled_by_user_id |-> NoUser,
   cancelled_reason |-> NoReason]

NoInstance == [id |-> 0, by |-> NoCode]
NoLocals == [user |-> NoUser, reason |-> NoReason, t |-> 0]
NoOutcome == [op |-> "none", result |-> "none", reason |-> "none"]
NoNotifications == [won |-> 0, redeemed |-> 0, cancelled |-> 0]
NoDraw == [client |-> "none", result |-> "none", id |-> 0, threw |-> FALSE]

\* Column defaults of table qr_codes (sequelize.define('QRCode', ...)).
GateDefaults ==
  [code |-> "K1", is_active |-> TRUE, is_used |-> FALSE, used_date |-> {},
   used_by_client_id |-> "null", prize_category |-> "basic",
   valid_from |-> 0, valid_until |-> {}, max_uses |-> 1, current_uses |-> 0,
   time_restricted |-> FALSE, allowed_hours_start |-> {},
   allowed_hours_end |-> {}, scan_count |-> 0, last_scan_date |-> {}]

NoGate == [loaded |-> FALSE]
NoUse == [result |-> "none", reason |-> "none"]
NoScan == [client |-> "null", t |-> 0]

NoWheel == [id |-> 0, category |-> "null", is_default |-> FALSE,
            sectors_config |-> <<>>, changed |-> {}]
NoSave == [result |-> "none", reason |-> "none", value |-> <<>>]
NoSpin == [result |-> "none", r |-> 0, prize_id |-> "null",
           sector_index |-> 0, sector_config |-> <<>>]
NoConfig == [sectors |-> <<>>, same |-> <<>>]

NoIssue == [pc |-> "idle", attempts |-> 0, draws |-> 0, code |-> NoCode,
            result |-> "none"]
NoRequest == [wheel |-> 0, client |-> "null", t |-> 0, allowed |-> "none",
              reason |-> "none", prize_id |-> "null"]

InitIssuersIdle == issue = [g \in Issuers |-> NoIssue]

\* Column defaults of table roulettes (sequelize.define('Roulette', ...)),
\* with two sectors of equal weight, in hundredths of a percent.
RouletteDefaults ==
  [is_active |-> TRUE, valid_from |-> 0, valid_until |-> {},
   available_hours_start |-> {}, available_hours_end |-> {},
   available_days |-> 0..6,
   max_spins_per_day |-> {}, max_spins_per_week |-> {},
   cooldown_minutes |-> 0,
   sectors_config |-> <<[prize_id |-> "p1", probability |-> 5000,
                         color |-> "red"],
                        [prize_id |-> "p2", probability |-> 5000,
                         color |-> "blue"]>>]

SpinWheels == {1, 2}             \* the ids of the wheels spin requests name

InitSpinnersIdle ==
  /\ spc = [g \in Spinners |-> "idle"]
  /\ sloc = [g \in Spinners |-> NoRequest]
  /\ roulette = [w \in SpinWheels |-> RouletteDefaults]

InitSaversIdle ==
  /\ wpc = [v \in Savers |-> "idle"]
  /\ wloc = [v \in Savers |-> NoWheel]
  /\ wout = [v \in Savers |-> NoSave]
  /\ saves = [v \in Savers |-> 0]

InitWheelIdle ==
  /\ wheels = <<>>
  /\ InitSaversIdle
  /\ cfg = NoConfig
  /\ spun = NoSpin
  /\ InitIssuersIdle
  /\ InitSpinnersIdle

InitGateIdle ==
  /\ qpc = [h \in Scanners |-> "idle"]
  /\ qinst = [h \in Scanners |-> NoGate]
  /\ qloc = [h \in Scanners |-> NoScan]
  /\ qout = [h \in Scanners |-> NoUse]
  /\ attempts = [h \in Scanners |-> 0]
  /\ successes = 0

InitRecordsIdle ==
  /\ winnings = <<>>
  /\ dpc = [d \in Drawers |-> "idle"]
  /\ dloc = [d \in Drawers |-> NoDraw]
  /\ hpc = [h \in Handles |-> "idle"]
  /\ inst = [h \in Handles |-> NoInstance]
  /\ hloc = [h \in Handles |-> NoLocals]
  /\ outcome = [h \in Handles |-> NoOutcome]
  /\ calls = [h \in Handles |-> 0]
  /\ effects = [i \in WinningIds |-> 0]
  /\ lateEffect = [i \in WinningIds |-> FALSE]
  /\ notified = [i \in WinningIds |-> NoNotifications]

InitPrizeIdle ==
  /\ clients = ClientRows
  /\ InitRecordsIdle

InitCommon ==
  /\ now = StartTime
  /\ qr = GateDefaults
  /\ InitGateIdle
  /\ InitPrizeIdle
  /\ InitWheelIdle

\* --------------------------------------------------------------- the draw
\* A draw request for the prize: availability, limits and eligibility are
\* read, then PrizeWinning.create inserts the record and its afterCreate
\* hook adds one to the prize's awarded_count.

\* Prize.findByPk, then Prize.prototype.isAvailable on the loaded instance.
DrawStart(d, c) ==
  /\ dpc[d] = "idle"
  /\ LET a == isAvailable(prize, now) IN
       IF a.available
         THEN /\ dpc' = [dpc EXCEPT ![d] = "d_day"]
              /\ dloc' = [dloc EXCEPT ![d] =
                            [client |-> c, result |-> "none", id |-> 0,
                             threw |-> FALSE,
                             prize |-> prize, t |-> now]]
         ELSE /\ dpc' = [dpc EXCEPT ![d] = "done"]
              /\ dloc' = [dloc EXCEPT ![d] =
                            [client |-> "none", result |-> a.reason,
                             id |-> 0, threw |-> FALSE]]
  /\ UNCHANGED <<now, issue, spinVars, prize, clients, winnings, handleVars, effects,
                 lateEffect, notified, gateVars, wheelVars>>

Reject(d, reason) ==
  /\ dpc' = [dpc EXCEPT ![d] = "done"]
  /\ dloc' = [dloc EXCEPT ![d] =
                [client |-> "none", result |-> reason, id |-> 0,
                 threw |-> FALSE]]

\* The request ends with the error its create() threw.
Throw(d, reason) ==
  /\ dpc' = [dpc EXCEPT ![d] = "done"]
  /\ dloc' = [dloc EXCEPT ![d] =
                [client |-> "none", result |-> reason, id |-> 0,
                 threw |-> TRUE]]

\* Prize.prototype.checkLimits: const now = new Date(), then the count of
\* today's records.
DrawCountDay(d) ==
  /\ dpc[d] = "d_day"
  /\ LET r == checkLimitsDay(dloc[d].prize, CountSince(TodayStart(now))) IN
       IF r.available
         THEN /\ dpc' = [dpc EXCEPT ![d] = "d_week"]
              /\ dloc' = [dloc EXCEPT ![d].t = now]
         ELSE Reject(d, r.reason)
  /\ UNCHANGED <<now, issue, spinVars, prize, clients, winnings, handleVars, effects,
                 lateEffect, notified, gateVars, wheelVars>>

\* Prize.prototype.checkLimits: the count of this week's records, the week
\* being that of the clock value read when checkLimits was entered.
DrawCountWeek(d) ==
  /\ dpc[d] = "d_week"
  /\ LET r == checkLimitsWeek(dloc[d].prize,
                              CountSince(WeekStart(dloc[d].t))) IN
       IF r.available
         THEN dpc' = [dpc EXCEPT ![d] = "d_client"] /\ dloc' = dloc
         ELSE Reject(d, r.reason)
  /\ UNCHANGED <<now, issue, spinVars, prize, clients, winnings, handleVars, effects,
                 lateEffect, notified, gateVars, wheelVars>>

\* Prize.prototype.checkClientEligibility: if (!client) return { eligible:
\* false, reason: 'Cliente no encontrado' }
returnNotFound(d) == Reject(d, "Cliente no encontrado")

\* Prize.prototype.checkClientEligibility: Client.findByPk and the count of
\* the client's records of this prize.
DrawEligibility(d) ==
  /\ dpc[d] = "d_client"
  /\ LET c == dloc[d].client IN
       IF c \notin DOMAIN clients
         THEN returnNotFound(d)
         ELSE LET r == checkClientEligibility(dloc[d].prize, clients[c], now,
                                              CountClient(c)) IN
                IF r.eligible
                  THEN dpc' = [dpc EXCEPT ![d] = "d_insert"] /\ dloc' = dloc
                  ELSE Reject(d, r.reason)
  /\ UNCHANGED <<now, issue, spinVars, prize, clients, winnings, handleVars, effects,
                 lateEffect, notified, gateVars, wheelVars>>

\* PrizeWinning.beforeCreate: expires_date from the prize's expiration_days
\* unless the caller gave one.
beforeCreateExpires(given, p, t) ==
  IF given # {} THEN given
  ELSE {t + e * TicksPerDay : e \in {x \in p.expiration_days : x # 0}}

\* PrizeWinning.generateRedemptionCode: the codes the loop can stop at, those
\* no row holds.
generateRedemptionCode ==
  {k \in Codes : \A i \in 1..Len(winnings) : k \notin winnings[i].redemption_code}

\* PrizeWinning.beforeCreate of a record that requires manual redemption and
\* was given no code: generateRedemptionCode returns a code no row held when
\* it was looked up, or throws after its last collision.
DrawGenerate(d) ==
  /\ dpc[d] = "d_insert"
  /\ \/ \E k \in generateRedemptionCode :
          /\ dpc' = [dpc EXCEPT ![d] = "d_code"]
          /\ dloc' = [dloc EXCEPT ![d] =
                        [client |-> dloc[d].client, result |-> "none",
                         id |-> 0, prize |-> dloc[d].prize, t |-> dloc[d].t,
                         code |-> k, threw |-> FALSE]]
     \/ /\ generateRedemptionCode # Codes
        /\ Throw(d, "No se pudo generar un codigo de canje unico")
  /\ UNCHANGED <<now, issue, spinVars, prize, clients, winnings, handleVars,
                 effects, lateEffect, notified, gateVars, wheelVars>>

codeIndexViolated_never(code) == FALSE

\* Unique index on redemption_code where it is not null: a row holds the code.
codeIndexViolated(code) ==
  \E i \in 1..Len(winnings) : winnings[i].redemption_code \cap code # {}

\* PrizeWinning.create: beforeCreate, then the INSERT under the unique index.
DrawInsert(d, rv, exp, manual) ==
  /\ dpc[d] = IF manual THEN "d_code" ELSE "d_insert"
  /\ LET code == IF manual THEN {dloc[d].code} ELSE {}
     IN IF codeIndexViolated(code)
        THEN /\ Throw(d, "redemption_code must be unique")
             /\ UNCHANGED winnings
        ELSE /\ winnings' = Append(winnings,
                              [NewWinning(dloc[d].client, rv,
                                          beforeCreateExpires(exp, prize, now),
                                          now, manual, code)
                                 EXCEPT !.prize_type = dloc[d].prize.type,
                                        !.prize_value = dloc[d].prize.value])
             /\ dloc' = [dloc EXCEPT ![d].id = Len(winnings) + 1]
             /\ dpc' = [dpc EXCEPT ![d] = "d_after"]
  /\ UNCHANGED <<now, issue, spinVars, prize, clients, handleVars, effects,
                 lateEffect, notified, gateVars, wheelVars>>

\* PrizeWinning.afterCreate: Prize.findByPk.
DrawAfterCreate(d) ==
  /\ dpc[d] = "d_after"
  /\ dloc' = [dloc EXCEPT ![d].prize = prize]
  /\ dpc' = [dpc EXCEPT ![d] = "d_incr"]
  /\ UNCHANGED <<now, issue, spinVars, prize, clients, winnings, handleVars, effects,
                 lateEffect, notified, gateVars, wheelVars>>

\* Prize.prototype.incrementAwarded: this.awarded_count += 1; save() writes
\* the instance's value of the changed column.
incrementAwarded(p) == p.awarded_count + 1

DrawIncrementAwarded(d) ==
  /\ dpc[d] = "d_incr"
  /\ prize' = [prize EXCEPT !.awarded_count = incrementAwarded(dloc[d].prize)]
  /\ dpc' = [dpc EXCEPT ![d] = "done"]
  /\ dloc' = [dloc EXCEPT ![d] =
                [client |-> "none", result |-> "won", id |-> dloc[d].id,
                 threw |-> FALSE]]
  /\ UNCHANGED <<now, issue, spinVars, clients, winnings, handleVars, effects, lateEffect,
                 notified, gateVars, wheelVars>>

\* Concurrent draws on a prize with stock and caps configured.
DrawPrizes ==
  {[PrizeDefaults EXCEPT !.stock_quantity = s, !.max_per_day = md,
                         !.max_per_week = mw, !.max_per_client = mc] :
     s \in {{}, {1}}, md \in {{}, {1}}, mw \in {{}, {2}},
     mc \in {{}, {1}}}

InitDraw ==
  /\ InitCommon
  /\ prize \in DrawPrizes

NextDraw ==
  \/ Tick
  \/ \E d \in Drawers, c \in Clients : DrawStart(d, c)
  \/ \E d \in Drawers : DrawCountDay(d)
  \/ \E d \in Drawers : DrawCountWeek(d)
  \/ \E d \in Drawers : DrawEligibility(d)
  \/ \E d \in Drawers : DrawInsert(d, FALSE, {}, FALSE)
  \/ \E d \in Drawers : DrawAfterCreate(d)
  \/ \E d \in Drawers : DrawIncrementAwarded(d)

SpecDraw == InitDraw /\ [][NextDraw]_vars

\* Draws on a prize with daily or weekly caps, from a Friday on.
LimitPrizes ==
  {[PrizeDefaults EXCEPT !.max_per_day = md, !.max_per_week = mw] :
     md \in {{}, {1}, {2}}, mw \in {{}, {1}, {2}}}

InitLimits ==
  /\ now = StartTime - TicksPerDay
  /\ qr = GateDefaults
  /\ InitGateIdle
  /\ InitPrizeIdle
  /\ InitWheelIdle
  /\ prize \in LimitPrizes

SpecLimits == InitLimits /\ [][NextDraw]_vars

\* Draws on a prize that may be inactive, not yet valid, expired or out of
\* stock.
AvailPrizes ==
  {[PrizeDefaults EXCEPT !.is_active = a, !.valid_from = f,
                         !.valid_until = u, !.stock_quantity = q] :
     a \in BOOLEAN, f \in {StartTime, StartTime + 1},
     u \in {{}, {StartTime}}, q \in {{}, {1}}}

InitAvail == InitCommon /\ prize \in AvailPrizes

SpecAvail == InitAvail /\ [][NextDraw]_vars

\* Draws on a prize with eligibility rules, for client c1 who may be under
\* age, newly registered or of an excluded membership type, for client c2
\* who is neither, and for an id no client row has.
MissingClient == "c0"

EligPrizes ==
  {[PrizeDefaults EXCEPT !.minimum_age = a, !.minimum_membership_days = m,
                         !.excluded_membership_types = x,
                         !.max_per_client = k] :
     a \in {{}, {18}}, m \in {0, 1}, x \in {{}, {"basic"}},
     k \in {{}, {1}}}

EligClients ==
  {[ClientRows EXCEPT !["c1"].age = a, !["c1"].registration_date = r,
                      !["c2"].membership_type = {"premium"}] :
     a \in {{30}, {16}}, r \in {0, StartTime}}

\* The table is empty or holds one record client c1 won before the prize
\* was given its rules.
EarlierWinnings ==
  {<<>>, <<NewWinning("c1", FALSE, {}, 0, FALSE, {})>>}

InitElig ==
  /\ now = StartTime
  /\ qr = GateDefaults
  /\ InitGateIdle
  /\ InitWheelIdle
  /\ clients \in EligClients
  /\ winnings \in EarlierWinnings
  /\ \E p \in EligPrizes : prize = [p EXCEPT !.awarded_count = Len(winnings)]
  /\ dpc = [d \in Drawers |-> "idle"]
  /\ dloc = [d \in Drawers |-> NoDraw]
  /\ hpc = [h \in Handles |-> "idle"]
  /\ inst = [h \in Handles |-> NoInstance]
  /\ hloc = [h \in Handles |-> NoLocals]
  /\ outcome = [h \in Handles |-> NoOutcome]
  /\ calls = [h \in Handles |-> 0]
  /\ effects = [i \in WinningIds |-> 0]
  /\ lateEffect = [i \in WinningIds |-> FALSE]
  /\ notified = [i \in WinningIds |-> NoNotifications]

NextElig ==
  \/ Tick
  \/ \E d \in Drawers, c \in Clients \cup {MissingClient} : DrawStart(d, c)
  \/ \E d \in Drawers : DrawCountDay(d)
  \/ \E d \in Drawers : DrawCountWeek(d)
  \/ \E d \in Drawers : DrawEligibility(d)
  \/ \E d \in Drawers : DrawInsert(d, FALSE, {}, FALSE)
  \/ \E d \in Drawers : DrawAfterCreate(d)
  \/ \E d \in Drawers : DrawIncrementAwarded(d)

SpecElig == InitElig /\ [][NextElig]_vars

\* ---------------------------------------------------- won-prize lifecycle
\* A handler holds an instance loaded by PrizeWinning.findByPk and calls the
\* instance methods on it.  The instance is not refreshed by the methods, so
\* a handler may act on a copy another handler has since overtaken.

Ended(op, result, reason) == [op |-> op, result |-> result, reason |-> reason]

\* Model.prototype.save on a loaded instance: UPDATE of the columns whose
\* value differs from the one the instance held before.
SaveChanged(row, before, after) ==
  [f \in DOMAIN row |-> IF after[f] # before[f] THEN after[f] ELSE row[f]]

\* PrizeWinning.beforeUpdate: the date of a status change or a verification
\* is filled in when the method left it empty.
beforeUpdate_resnapshot(before, after, t) ==
  [after EXCEPT !.prize_value = prize.value]

beforeUpdate(before, after, t) ==
  LET c == IF after.status = before.status THEN after
           ELSE IF after.status = "applied" /\ after.applied_date = {}
             THEN [after EXCEPT !.applied_date = {t}]
           ELSE IF after.status = "redeemed" /\ after.redeemed_date = {}
             THEN [after EXCEPT !.redeemed_date = {t}]
           ELSE IF after.status = "cancelled" /\ after.cancelled_date = {}
             THEN [after EXCEPT !.cancelled_date = {t}]
           ELSE after
  IN IF after.verified # before.verified /\ after.verified
          /\ after.verified_date = {}
       THEN [c EXCEPT !.verified_date = {t}] ELSE c

\* this.save() by handler h after the method changed its instance to `after`.
Save(h, after) ==
  LET i == inst[h].id
      final == beforeUpdate(inst[h].row, after, now) IN
  /\ winnings' = [winnings EXCEPT ![i] = SaveChanged(@, inst[h].row, final)]
  /\ inst' = [inst EXCEPT ![h].row = final]

\* PrizeWinning.findByPk(i).  The id is the one PrizeWinning.create returned
\* to the draw that made the record, once its hooks had run.
Load(h, i) ==
  /\ hpc[h] = "idle"
  /\ i \in 1..Len(winnings)
  /\ \E d \in Drawers : dpc[d] = "done" /\ dloc[d].id = i
  /\ inst' = [inst EXCEPT ![h] = [id |-> i, by |-> NoCode, row |-> winnings[i]]]
  /\ UNCHANGED <<now, issue, spinVars, prize, clients, winnings, drawVars, hpc, hloc, outcome, effects, lateEffect, notified, calls, gateVars, wheelVars>>

\* PrizeWinning.findByRedemptionCode(k): the pending record holding the code
\* the caller presents, or null.
findByRedemptionCode(k) ==
  {i \in 1..Len(winnings) :
     k \in winnings[i].redemption_code /\ winnings[i].status = "pending"}

LoadByCode(h, k) ==
  /\ hpc[h] = "idle"
  /\ IF findByRedemptionCode(k) = {}
       THEN inst' = [inst EXCEPT ![h] = [id |-> 0, by |-> k]]
       ELSE \E i \in findByRedemptionCode(k) :
              inst' = [inst EXCEPT ![h] = [id |-> i, by |-> k,
                                           row |-> winnings[i]]]
  /\ UNCHANGED <<now, issue, spinVars, prize, clients, winnings, drawVars, hpc, hloc, outcome, effects, lateEffect, notified, calls, gateVars, wheelVars>>

\* isExpired never reporting an expiry.
isExpired_never(w, t) == FALSE

\* PrizeWinning.prototype.isExpired
isExpired(w, t) == \E e \in w.expires_date : t > e

\* canBeApplied without its verification guard.
canBeApplied_noVerification(w, t) ==
  IF w.status # "pending"
    THEN [canApply |-> FALSE, reason |-> "Premio ya"]
  ELSE IF isExpired(w, t)
    THEN [canApply |-> FALSE, reason |-> "Premio expirado"]
  ELSE [canApply |-> TRUE, reason |-> "none"]

\* PrizeWinning.prototype.canBeApplied
canBeApplied(w, t) ==
  IF w.status # "pending"
    THEN [canApply |-> FALSE, reason |-> "Premio ya"]
  ELSE IF isExpired(w, t)
    THEN [canApply |-> FALSE, reason |-> "Premio expirado"]
  ELSE IF w.requires_verification /\ ~w.verified
    THEN [canApply |-> FALSE, reason |-> "Requiere verificacion"]
  ELSE [canApply |-> TRUE, reason |-> "none"]

RECURSIVE SumOver(_, _)
SumOver(f, S) ==
  IF S = {} THEN 0
  ELSE LET x == CHOOSE y \in S : TRUE IN f[x] + SumOver(f, S \ {x})

\* A handler between two method calls, holding an instance.
CanCall(h) ==
  /\ hpc[h] = "idle"
  /\ inst[h].id # 0
  /\ SumOver(calls, Handles) < MaxCalls
  /\ calls' = [calls EXCEPT ![h] = @ + 1]

\* PrizeWinning.prototype.apply: canBeApplied, then Prize.findByPk is issued.
\* Also the tail of verify(), which calls this.apply(verifiedByUserId).
applyEntry(h, op, u) ==
  LET v == canBeApplied(inst[h].row, now) IN
  IF v.canApply
    THEN /\ hpc' = [hpc EXCEPT ![h] = "apply_find"]
         /\ hloc' = [hloc EXCEPT ![h] = [NoLocals EXCEPT !.user = u]]
         /\ outcome' = outcome
    ELSE /\ hpc' = [hpc EXCEPT ![h] = "idle"]
         /\ hloc' = [hloc EXCEPT ![h] = NoLocals]
         /\ outcome' = [outcome EXCEPT ![h] = Ended(op, "error", v.reason)]

CallApply(h, u) ==
  /\ CanCall(h)
  /\ applyEntry(h, "apply", u)
  /\ UNCHANGED <<now, issue, spinVars, prize, clients, winnings, drawVars, inst, effects,
                 lateEffect, notified, gateVars, wheelVars>>

\* apply() going on to the prize's effect whatever its auto_apply says.
ApplyFindPrize_ignoresAutoApply(h) ==
  /\ hpc[h] = "apply_find"
  /\ hpc' = [hpc EXCEPT ![h] = "apply_effect"]
  /\ hloc' = [hloc EXCEPT ![h] =
                [user |-> hloc[h].user, reason |-> NoReason,
                 t |-> 0, prize |-> prize]]
  /\ outcome' = outcome
  /\ UNCHANGED <<now, issue, spinVars, prize, clients, winnings, drawVars, inst, effects, lateEffect, notified, calls, gateVars, wheelVars>>

\* apply(): the prize is loaded; Prize.prototype.applyToClient returns
\* applied: false for a prize without auto_apply, else loads the client.
ApplyFindPrize(h) ==
  /\ hpc[h] = "apply_find"
  /\ IF prize.auto_apply
       THEN /\ hpc' = [hpc EXCEPT ![h] = "apply_effect"]
            /\ hloc' = [hloc EXCEPT ![h] =
                          [user |-> hloc[h].user, reason |-> NoReason,
                           t |-> 0, prize |-> prize]]
            /\ outcome' = outcome
       ELSE /\ hpc' = [hpc EXCEPT ![h] = "idle"]
            /\ hloc' = [hloc EXCEPT ![h] = NoLocals]
            /\ outcome' = [outcome EXCEPT ![h] =
                             Ended("apply", "not_applied",
                                   "Premio requiere canje manual")]
  /\ UNCHANGED <<now, issue, spinVars, prize, clients, winnings, drawVars, inst, effects, lateEffect, notified, calls, gateVars, wheelVars>>

\* The prize types whose applyToClient branch calls a collaborator.
EffectTypes == {"membership_days", "points", "free_product"}

\* Prize.prototype.applyToClient: the switch on the prize type.  For
\* membership_days, applyMembershipDays looks up the client's active
\* membership and goes on to extend it only if there is one.
ApplyEffect(h) ==
  /\ hpc[h] = "apply_effect"
  /\ LET i == inst[h].id IN
       IF hloc[h].prize.type \in EffectTypes
         THEN /\ effects' = [effects EXCEPT ![i] = @ + 1]
              /\ lateEffect' = [lateEffect EXCEPT ![i] =
                                  @ \/ winnings[i].status = "cancelled"]
         ELSE UNCHANGED <<effects, lateEffect>>
  /\ LET active == clients[inst[h].row.client_id].end_date IN
       IF hloc[h].prize.type = "membership_days" /\ active # {}
         THEN /\ hpc' = [hpc EXCEPT ![h] = "apply_member"]
              /\ hloc' = [hloc EXCEPT ![h] =
                            [user |-> hloc[h].user, reason |-> NoReason,
                             t |-> 0, prize |-> hloc[h].prize,
                             end_date |-> active]]
         ELSE /\ hpc' = [hpc EXCEPT ![h] = "apply_save"]
              /\ hloc' = hloc
  /\ UNCHANGED <<now, issue, spinVars, prize, clients, winnings, drawVars, inst,
                 outcome, notified, calls, gateVars, wheelVars>>

\* parseInt(this.value) of a DECIMAL(10, 2) column, the value held in
\* hundredths.
parseIntValue(v) == v \div 100

\* applyMembershipDays: end_date = end_date + parseInt(this.value) days, and
\* activeMembership.save().
ApplyMembershipSave(h) ==
  /\ hpc[h] = "apply_member"
  /\ clients' = [clients EXCEPT ![inst[h].row.client_id].end_date =
                   {e + parseIntValue(hloc[h].prize.value) :
                      e \in hloc[h].end_date}]
  /\ hpc' = [hpc EXCEPT ![h] = "apply_save"]
  /\ UNCHANGED <<now, issue, spinVars, prize, winnings, drawVars, inst, hloc, outcome,
                 effects, lateEffect, notified, calls, gateVars, wheelVars>>

\* apply(): result.applied, so the status is set and saved.
ApplySave(h) ==
  /\ hpc[h] = "apply_save"
  /\ Save(h, [inst[h].row EXCEPT !.status = "applied", !.auto_applied = TRUE,
                                 !.applied_date = {now}])
  /\ hpc' = [hpc EXCEPT ![h] = "apply_incr"]
  /\ UNCHANGED <<now, issue, spinVars, prize, clients, drawVars, hloc, outcome, effects, lateEffect, notified, calls, gateVars, wheelVars>>

\* Prize.prototype.incrementRedeemed on the Prize instance p.
incrementRedeemed(p) == p.redeemed_count + 1

\* apply(): prize.incrementRedeemed(), then sendNotification is entered only
\* when the instance says none was sent.
ApplyIncrementRedeemed(h) ==
  /\ hpc[h] = "apply_incr"
  /\ prize' = [prize EXCEPT !.redeemed_count = incrementRedeemed(hloc[h].prize)]
  /\ IF ~inst[h].row.notification_sent
       THEN /\ hpc' = [hpc EXCEPT ![h] = "apply_notify"]
            /\ UNCHANGED <<hloc, outcome>>
       ELSE /\ hpc' = [hpc EXCEPT ![h] = "idle"]
            /\ hloc' = [hloc EXCEPT ![h] = NoLocals]
            /\ outcome' = [outcome EXCEPT ![h] = Ended("apply", "ok", "none")]
  /\ UNCHANGED <<now, issue, spinVars, clients, winnings, drawVars, inst, effects,
                 lateEffect, notified, calls, gateVars, wheelVars>>

\* PrizeWinning.prototype.sendNotification(type): Notification.create, then
\* notification_sent is saved.
sendNotification(h, type) ==
  /\ notified' = [notified EXCEPT ![inst[h].id][type] = @ + 1]
  /\ Save(h, [inst[h].row EXCEPT !.notification_sent = TRUE])

Finish(h, op) ==
  /\ hpc' = [hpc EXCEPT ![h] = "idle"]
  /\ hloc' = [hloc EXCEPT ![h] = NoLocals]
  /\ outcome' = [outcome EXCEPT ![h] = Ended(op, "ok", "none")]

\* apply(): this.sendNotification() with the default type 'won'.
ApplyNotify(h) ==
  /\ hpc[h] = "apply_notify"
  /\ sendNotification(h, "won")
  /\ Finish(h, "apply")
  /\ UNCHANGED <<now, issue, spinVars, prize, clients, drawVars, effects, lateEffect, calls, gateVars, wheelVars>>

\* A caller announcing the win: this.sendNotification() with the default
\* type 'won', called on the loaded instance.
CallSendNotification(h) ==
  /\ CanCall(h)
  /\ sendNotification(h, "won")
  /\ outcome' = [outcome EXCEPT ![h] = Ended("notify", "ok", "none")]
  /\ UNCHANGED <<now, issue, spinVars, prize, clients, drawVars, hpc, hloc, effects,
                 lateEffect, gateVars, wheelVars>>

\* PrizeWinning.prototype.redeem: the status and expiry guards.
CallRedeem(h, u) ==
  /\ CanCall(h)
  /\ IF inst[h].row.status # "pending"
       THEN /\ outcome' = [outcome EXCEPT ![h] =
                             Ended("redeem", "error", "No se puede canjear")]
            /\ UNCHANGED <<hpc, hloc>>
     ELSE IF isExpired(inst[h].row, now)
       THEN /\ outcome' = [outcome EXCEPT ![h] =
                             Ended("redeem", "error", "El premio ha expirado")]
            /\ UNCHANGED <<hpc, hloc>>
     ELSE /\ hpc' = [hpc EXCEPT ![h] = "redeem_save"]
          /\ hloc' = [hloc EXCEPT ![h] =
                        [NoLocals EXCEPT !.user = u, !.t = now]]
          /\ outcome' = outcome
  /\ UNCHANGED <<now, issue, spinVars, prize, clients, winnings, drawVars, inst, effects,
                 lateEffect, notified, gateVars, wheelVars>>

\* redeem(): the status is set and saved.
RedeemSave(h) ==
  /\ hpc[h] = "redeem_save"
  /\ Save(h, [inst[h].row EXCEPT !.status = "redeemed",
                                 !.redeemed_date = {hloc[h].t}])
  /\ hpc' = [hpc EXCEPT ![h] = "redeem_find"]
  /\ UNCHANGED <<now, issue, spinVars, prize, clients, drawVars, hloc, outcome, effects, lateEffect, notified, calls, gateVars, wheelVars>>

\* redeem(): Prize.findByPk
RedeemFindPrize(h) ==
  /\ hpc[h] = "redeem_find"
  /\ hloc' = [hloc EXCEPT ![h] =
                [user |-> hloc[h].user, reason |-> NoReason, t |-> 0,
                 prize |-> prize]]
  /\ hpc' = [hpc EXCEPT ![h] = "redeem_incr"]
  /\ UNCHANGED <<now, issue, spinVars, prize, clients, winnings, drawVars, inst, outcome, effects, lateEffect, notified, calls, gateVars, wheelVars>>

\* redeem(): prize.incrementRedeemed()
RedeemIncrementRedeemed(h) ==
  /\ hpc[h] = "redeem_incr"
  /\ prize' = [prize EXCEPT !.redeemed_count = incrementRedeemed(hloc[h].prize)]
  /\ hpc' = [hpc EXCEPT ![h] = "redeem_notify"]
  /\ UNCHANGED <<now, issue, spinVars, clients, winnings, drawVars, inst, hloc, outcome, effects, lateEffect, notified, calls, gateVars, wheelVars>>

\* redeem(): this.sendNotification('redeemed')
RedeemNotify(h) ==
  /\ hpc[h] = "redeem_notify"
  /\ sendNotification(h, "redeemed")
  /\ Finish(h, "redeem")
  /\ UNCHANGED <<now, issue, spinVars, prize, clients, drawVars, effects, lateEffect, calls, gateVars, wheelVars>>

\* PrizeWinning.prototype.verify: no guard; the verification is set.
CallVerify(h, u) ==
  /\ CanCall(h)
  /\ hpc' = [hpc EXCEPT ![h] = "verify_save"]
  /\ hloc' = [hloc EXCEPT ![h] = [NoLocals EXCEPT !.user = u, !.t = now]]
  /\ UNCHANGED <<now, issue, spinVars, prize, clients, winnings, drawVars, inst, outcome,
                 effects, lateEffect, notified, gateVars, wheelVars>>

\* verify(): the verification is saved.
VerifySave(h) ==
  /\ hpc[h] = "verify_save"
  /\ Save(h, [inst[h].row EXCEPT !.verified = TRUE,
                                 !.verified_by_user_id = hloc[h].user,
                                 !.verified_date = {hloc[h].t}])
  /\ hpc' = [hpc EXCEPT ![h] = "verify_find"]
  /\ UNCHANGED <<now, issue, spinVars, prize, clients, drawVars, hloc, outcome, effects, lateEffect, notified, calls, gateVars, wheelVars>>

\* verify(): Prize.findByPk; a prize with auto_apply is applied at once.
VerifyFindPrize(h) ==
  /\ hpc[h] = "verify_find"
  /\ IF prize.auto_apply
       THEN applyEntry(h, "verify", hloc[h].user)
       ELSE Finish(h, "verify")
  /\ UNCHANGED <<now, issue, spinVars, prize, clients, winnings, drawVars, inst, effects, lateEffect, notified, calls, gateVars, wheelVars>>

\* cancel refusing applied records only.
cancelRefused_onlyApplied == {"applied"}

\* The statuses PrizeWinning.prototype.cancel refuses.
cancelRefused == {"applied", "redeemed"}

\* PrizeWinning.prototype.cancel: the guard.
CallCancel(h, u, why) ==
  /\ CanCall(h)
  /\ IF inst[h].row.status \in cancelRefused
       THEN /\ outcome' = [outcome EXCEPT ![h] =
                             Ended("cancel", "error", "No se puede cancelar")]
            /\ UNCHANGED <<hpc, hloc>>
       ELSE /\ hpc' = [hpc EXCEPT ![h] = "cancel_save"]
            /\ hloc' = [hloc EXCEPT ![h] =
                          [user |-> u, reason |-> why, t |-> now]]
            /\ outcome' = outcome
  /\ UNCHANGED <<now, issue, spinVars, prize, clients, winnings, drawVars, inst, effects,
                 lateEffect, notified, gateVars, wheelVars>>

\* cancel(): the status is set and saved.
CancelSave(h) ==
  /\ hpc[h] = "cancel_save"
  /\ Save(h, [inst[h].row EXCEPT !.status = "cancelled",
                                 !.cancelled_date = {hloc[h].t},
                                 !.cancelled_by_user_id = hloc[h].user,
                                 !.cancelled_reason = hloc[h].reason])
  /\ hpc' = [hpc EXCEPT ![h] = "cancel_notify"]
  /\ UNCHANGED <<now, issue, spinVars, prize, clients, drawVars, hloc, outcome, effects, lateEffect, notified, calls, gateVars, wheelVars>>

\* cancel(): this.sendNotification('cancelled')
CancelNotify(h) ==
  /\ hpc[h] = "cancel_notify"
  /\ sendNotification(h, "cancelled")
  /\ Finish(h, "cancel")
  /\ UNCHANGED <<now, issue, spinVars, prize, clients, drawVars, effects, lateEffect, calls, gateVars, wheelVars>>

\* The prizes the lifecycle is run against.
LifePrizes ==
  {[PrizeDefaults EXCEPT !.auto_apply = a, !.type = ty,
                         !.expiration_days = e] :
     a \in BOOLEAN, ty \in {"points"}, e \in {{}}}

InitLife ==
  /\ InitCommon
  /\ prize \in LifePrizes

\* One draw request at a time creates the records; the handlers run the
\* lifecycle methods on them, interleaved at every await.
NextLife ==
  \/ Tick
  \/ \E c \in {"c1"} : DrawStart("d1", c)
  \/ DrawCountDay("d1")
  \/ DrawCountWeek("d1")
  \/ DrawEligibility("d1")
  \/ \E rv \in BOOLEAN, exp \in {{}, {now}} :
       DrawInsert("d1", rv, exp, FALSE)
  \/ DrawAfterCreate("d1")
  \/ DrawIncrementAwarded("d1")
  \/ \E h \in Handles, i \in WinningIds : Load(h, i)
  \/ \E h \in Handles, u \in Users : CallApply(h, u)
  \/ \E h \in Handles : ApplyFindPrize(h)
  \/ \E h \in Handles : ApplyEffect(h)
  \/ \E h \in Handles : ApplySave(h)
  \/ \E h \in Handles : ApplyIncrementRedeemed(h)
  \/ \E h \in Handles : ApplyNotify(h)
  \/ \E h \in Handles, u \in Users : CallRedeem(h, u)
  \/ \E h \in Handles : RedeemSave(h)
  \/ \E h \in Handles : RedeemFindPrize(h)
  \/ \E h \in Handles : RedeemIncrementRedeemed(h)
  \/ \E h \in Handles : RedeemNotify(h)
  \/ \E h \in Handles, u \in Users : CallVerify(h, u)
  \/ \E h \in Handles : VerifySave(h)
  \/ \E h \in Handles : VerifyFindPrize(h)
  \/ \E h \in Handles, u \in Users, why \in Reasons : CallCancel(h, u, why)
  \/ \E h \in Handles : CancelSave(h)
  \/ \E h \in Handles : CancelNotify(h)

SpecLife == InitLife /\ [][NextLife]_vars

\* Prize.update({ value }): the catalog prize is edited after records of it
\* were won.
NewValue == 100

PrizeChange ==
  /\ prize.value # NewValue
  /\ Len(winnings) > 0
  /\ prize' = [prize EXCEPT !.value = NewValue]
  /\ UNCHANGED <<now, issue, spinVars, clients, winnings, drawVars,
                 handleVars, effects, lateEffect, notified, gateVars,
                 wheelVars>>

\* The lifecycle of the records of one draw, the catalog prize being edited
\* in between.
NextFrame ==
  \/ \E c \in {"c1"} : DrawStart("d1", c)
  \/ DrawCountDay("d1")
  \/ DrawCountWeek("d1")
  \/ DrawEligibility("d1")
  \/ \E rv \in BOOLEAN : DrawInsert("d1", rv, {}, FALSE)
  \/ DrawAfterCreate("d1")
  \/ DrawIncrementAwarded("d1")
  \/ PrizeChange
  \/ \E h \in Handles, i \in WinningIds : Load(h, i)
  \/ \E h \in Handles, u \in Users : CallApply(h, u)
  \/ \E h \in Handles : ApplyFindPrize(h)
  \/ \E h \in Handles : ApplyEffect(h)
  \/ \E h \in Handles : ApplySave(h)
  \/ \E h \in Handles : ApplyIncrementRedeemed(h)
  \/ \E h \in Handles : ApplyNotify(h)
  \/ \E h \in Handles : CallSendNotification(h)
  \/ \E h \in Handles, u \in Users : CallRedeem(h, u)
  \/ \E h \in Handles : RedeemSave(h)
  \/ \E h \in Handles : RedeemFindPrize(h)
  \/ \E h \in Handles : RedeemIncrementRedeemed(h)
  \/ \E h \in Handles : RedeemNotify(h)
  \/ \E h \in Handles, u \in Users : CallVerify(h, u)
  \/ \E h \in Handles : VerifySave(h)
  \/ \E h \in Handles : VerifyFindPrize(h)
  \/ \E h \in Handles, u \in Users, why \in Reasons : CallCancel(h, u, why)
  \/ \E h \in Handles : CancelSave(h)
  \/ \E h \in Handles : CancelNotify(h)

SpecFrame == InitLife /\ [][NextFrame]_vars

\* Manual redemption: records that carry a redemption code are looked up by
\* id or by the code a caller presents, and redeemed.
RedeemPrizes == {[PrizeDefaults EXCEPT !.auto_apply = FALSE]}

InitRedeem ==
  /\ InitCommon
  /\ prize \in RedeemPrizes

NextRedeem ==
  \/ Tick
  \/ \E d \in Drawers : DrawStart(d, "c1")
  \/ \E d \in Drawers : DrawCountDay(d)
  \/ \E d \in Drawers : DrawCountWeek(d)
  \/ \E d \in Drawers : DrawEligibility(d)
  \/ \E d \in Drawers : DrawGenerate(d)
  \/ \E d \in Drawers, exp \in {{}, {now}} : DrawInsert(d, FALSE, exp, TRUE)
  \/ \E d \in Drawers : DrawAfterCreate(d)
  \/ \E d \in Drawers : DrawIncrementAwarded(d)
  \/ \E i \in WinningIds : Load("h1", i)
  \/ \E k \in Codes : LoadByCode("h1", k)
  \/ \E u \in Users : CallRedeem("h1", u)
  \/ RedeemSave("h1")
  \/ RedeemFindPrize("h1")
  \/ RedeemIncrementRedeemed("h1")
  \/ RedeemNotify("h1")

SpecRedeem == InitRedeem /\ [][NextRedeem]_vars

\* Draw requests create records that require manual redemption, concurrently.
NextCodes ==
  \/ \E d \in Drawers, c \in Clients : DrawStart(d, c)
  \/ \E d \in Drawers : DrawCountDay(d)
  \/ \E d \in Drawers : DrawCountWeek(d)
  \/ \E d \in Drawers : DrawEligibility(d)
  \/ \E d \in Drawers : DrawGenerate(d)
  \/ \E d \in Drawers : DrawInsert(d, FALSE, {}, TRUE)
  \/ \E d \in Drawers : DrawAfterCreate(d)
  \/ \E d \in Drawers : DrawIncrementAwarded(d)
  \/ \E i \in WinningIds : Load("h1", i)
  \/ \E u \in Users, why \in Reasons : CallCancel("h1", u, why)
  \/ CancelSave("h1")
  \/ CancelNotify("h1")

SpecCodes == InitRedeem /\ [][NextCodes]_vars

\* Automatic application by one handler, the win being announced or not
\* before apply() is called.
ApplyPrizes == {[PrizeDefaults EXCEPT !.auto_apply = TRUE]}

InitApply ==
  /\ InitCommon
  /\ prize \in ApplyPrizes

NextApply ==
  \/ Tick
  \/ \E d \in Drawers : DrawStart(d, "c1")
  \/ \E d \in Drawers : DrawCountDay(d)
  \/ \E d \in Drawers : DrawCountWeek(d)
  \/ \E d \in Drawers : DrawEligibility(d)
  \/ \E d \in Drawers : DrawInsert(d, FALSE, {}, FALSE)
  \/ \E d \in Drawers : DrawAfterCreate(d)
  \/ \E d \in Drawers : DrawIncrementAwarded(d)
  \/ \E i \in WinningIds : Load("h1", i)
  \/ CallSendNotification("h1")
  \/ \E u \in Users : CallApply("h1", u)
  \/ ApplyFindPrize("h1")
  \/ ApplyEffect("h1")
  \/ ApplySave("h1")
  \/ ApplyIncrementRedeemed("h1")
  \/ ApplyNotify("h1")

SpecApply == InitApply /\ [][NextApply]_vars

\* Membership-day prizes applied by one handler to a client with or without
\* an active membership.
MemberPrizes ==
  {[PrizeDefaults EXCEPT !.type = "membership_days", !.value = v] :
     v \in {100, 250}}

MemberClients ==
  {ClientRows,
   [ClientRows EXCEPT !["c1"].membership_type = {}, !["c1"].end_date = {}]}

InitMember ==
  /\ now = StartTime
  /\ qr = GateDefaults
  /\ InitGateIdle
  /\ InitRecordsIdle
  /\ clients \in MemberClients
  /\ prize \in MemberPrizes
  /\ InitWheelIdle

NextMember ==
  \/ Tick
  \/ \E d \in Drawers : DrawStart(d, "c1")
  \/ \E d \in Drawers : DrawCountDay(d)
  \/ \E d \in Drawers : DrawCountWeek(d)
  \/ \E d \in Drawers : DrawEligibility(d)
  \/ \E d \in Drawers : DrawInsert(d, FALSE, {}, FALSE)
  \/ \E d \in Drawers : DrawAfterCreate(d)
  \/ \E d \in Drawers : DrawIncrementAwarded(d)
  \/ \E i \in WinningIds : Load("h1", i)
  \/ \E u \in Users : CallApply("h1", u)
  \/ ApplyFindPrize("h1")
  \/ ApplyEffect("h1")
  \/ ApplyMembershipSave("h1")
  \/ ApplySave("h1")
  \/ ApplyIncrementRedeemed("h1")
  \/ ApplyNotify("h1")

SpecMember == InitMember /\ [][NextMember]_vars

\* The periodic expiration sweep: the pending records whose expiration has
\* passed are moved to expired, in one statement.
sweepTargets ==
  {i \in 1..Len(winnings) :
     winnings[i].status = "pending" /\ isExpired(winnings[i], now)}

Sweep ==
  /\ sweepTargets # {}
  /\ winnings' = [i \in 1..Len(winnings) |->
                    IF i \in sweepTargets
                      THEN [winnings[i] EXCEPT !.status = "expired"]
                      ELSE winnings[i]]
  /\ UNCHANGED <<now, issue, spinVars, prize, clients, drawVars, handleVars, effects,
                 lateEffect, notified, gateVars, wheelVars>>

\* Records with an expiration, redeemed or cancelled by one handler while the
\* sweep runs in the background.
NextSweep ==
  \/ Tick
  \/ \E d \in Drawers : DrawStart(d, "c1")
  \/ \E d \in Drawers : DrawCountDay(d)
  \/ \E d \in Drawers : DrawCountWeek(d)
  \/ \E d \in Drawers : DrawEligibility(d)
  \/ \E d \in Drawers, exp \in {{}, {now}} : DrawInsert(d, FALSE, exp, FALSE)
  \/ \E d \in Drawers : DrawAfterCreate(d)
  \/ \E d \in Drawers : DrawIncrementAwarded(d)
  \/ \E i \in WinningIds : Load("h1", i)
  \/ \E u \in Users : CallRedeem("h1", u)
  \/ RedeemSave("h1")
  \/ RedeemFindPrize("h1")
  \/ RedeemIncrementRedeemed("h1")
  \/ RedeemNotify("h1")
  \/ \E u \in Users, why \in Reasons : CallCancel("h1", u, why)
  \/ CancelSave("h1")
  \/ CancelNotify("h1")
  \/ Sweep

\* The sweep is a background task that keeps being scheduled.
SpecSweep == InitRedeem /\ [][NextSweep]_vars /\ WF_vars(Sweep)

\* --------------------------------------------------------------- scan gate
\* isValid with the exhaustion test off by one.
isValid_offByOne(g, t) ==
  IF ~g.is_active THEN [valid |-> FALSE, reason |-> "Codigo desactivado"]
  ELSE IF g.current_uses > g.max_uses
    THEN [valid |-> FALSE, reason |-> "Codigo agotado"]
  ELSE IF g.valid_from > t
    THEN [valid |-> FALSE, reason |-> "Codigo aun no valido"]
  ELSE IF \E u \in g.valid_until : u < t
    THEN [valid |-> FALSE, reason |-> "Codigo expirado"]
  ELSE [valid |-> TRUE, reason |-> "none"]

\* QRCode.prototype.isValid
isValid(g, t) ==
  IF ~g.is_active THEN [valid |-> FALSE, reason |-> "Codigo desactivado"]
  ELSE IF g.current_uses >= g.max_uses
    THEN [valid |-> FALSE, reason |-> "Codigo agotado"]
  ELSE IF g.valid_from > t
    THEN [valid |-> FALSE, reason |-> "Codigo aun no valido"]
  ELSE IF \E u \in g.valid_until : u < t
    THEN [valid |-> FALSE, reason |-> "Codigo expirado"]
  ELSE [valid |-> TRUE, reason |-> "none"]

\* time.toTimeString().slice(0, 8): the time of day of a tick
TimeOfDay(t) == t % TicksPerDay

isValidTime_always(g, t) == TRUE

\* QRCode.prototype.isValidTime
isValidTime(g, t) ==
  IF ~g.time_restricted THEN TRUE
  ELSE IF g.allowed_hours_start # {} /\ g.allowed_hours_end # {}
    THEN \E start \in g.allowed_hours_start, end \in g.allowed_hours_end :
           IF start > end
             THEN TimeOfDay(t) >= start \/ TimeOfDay(t) <= end
             ELSE TimeOfDay(t) >= start /\ TimeOfDay(t) <= end
  ELSE TRUE

\* QRCode.findByPk / findOne({ where: { code } })
GateLoad(h) ==
  /\ qpc[h] = "idle"
  /\ qinst' = [qinst EXCEPT ![h] = [loaded |-> TRUE, row |-> qr]]
  /\ UNCHANGED <<now, issue, spinVars, prizeVars, wheelVars, qr, qpc, qloc, qout, attempts, successes>>

\* QRCode.prototype.use: the two validations.
CallUse(h, c) ==
  /\ qpc[h] = "idle"
  /\ qinst[h].loaded
  /\ SumOver(attempts, Scanners) < MaxAttempts
  /\ attempts' = [attempts EXCEPT ![h] = @ + 1]
  /\ LET v == isValid(qinst[h].row, now) IN
       IF ~v.valid
         THEN /\ qout' = [qout EXCEPT ![h] =
                            [result |-> "error", reason |-> v.reason]]
              /\ UNCHANGED <<qpc, qloc>>
       ELSE IF ~isValidTime(qinst[h].row, now)
         THEN /\ qout' = [qout EXCEPT ![h] =
                            [result |-> "error",
                             reason |-> "Codigo no valido en este horario"]]
              /\ UNCHANGED <<qpc, qloc>>
       ELSE /\ qpc' = [qpc EXCEPT ![h] = "use_save"]
            /\ qloc' = [qloc EXCEPT ![h] = [client |-> c, t |-> now]]
            /\ qout' = [qout EXCEPT ![h] = NoUse]
  /\ UNCHANGED <<now, issue, spinVars, prizeVars, wheelVars, qr, qinst, successes>>

useCounters_noScan(g, c, t) ==
  LET n == [g EXCEPT !.current_uses = @ + 1, !.last_scan_date = {t}] IN
  IF n.current_uses >= n.max_uses
    THEN [n EXCEPT !.is_used = TRUE, !.used_date = {t},
                   !.used_by_client_id = c]
    ELSE n

\* use(): the counters are incremented and the gate is marked used once the
\* maximum is reached.
useCounters(g, c, t) ==
  LET n == [g EXCEPT !.current_uses = @ + 1, !.scan_count = @ + 1,
                     !.last_scan_date = {t}] IN
  IF n.current_uses >= n.max_uses
    THEN [n EXCEPT !.is_used = TRUE, !.used_date = {t},
                   !.used_by_client_id = c]
    ELSE n

\* use(): this.save(), then the result is returned.
UseSave(h) ==
  /\ qpc[h] = "use_save"
  /\ LET after == useCounters(qinst[h].row, qloc[h].client, qloc[h].t) IN
       /\ qr' = SaveChanged(qr, qinst[h].row, after)
       /\ qinst' = [qinst EXCEPT ![h].row = after]
       /\ qout' = [qout EXCEPT ![h] =
                     [result |-> "ok", reason |-> "none",
                      uses_remaining |-> after.max_uses - after.current_uses,
                      prize_category |-> after.prize_category]]
  /\ successes' = successes + 1
  /\ qpc' = [qpc EXCEPT ![h] = "idle"]
  /\ qloc' = [qloc EXCEPT ![h] = NoScan]
  /\ UNCHANGED <<now, issue, spinVars, prizeVars, wheelVars, attempts>>

\* QRCode.prototype.deactivate
Deactivate(h) ==
  /\ qpc[h] = "idle"
  /\ qinst[h].loaded
  /\ LET after == [qinst[h].row EXCEPT !.is_active = FALSE] IN
       /\ qr' = SaveChanged(qr, qinst[h].row, after)
       /\ qinst' = [qinst EXCEPT ![h].row = after]
  /\ UNCHANGED <<now, issue, spinVars, prizeVars, wheelVars, qpc, qloc, qout, attempts, successes>>

\* The gates the scans are run against.
Gates ==
  {[GateDefaults EXCEPT !.max_uses = m, !.valid_from = f, !.valid_until = u,
                        !.time_restricted = r, !.allowed_hours_start = {a},
                        !.allowed_hours_end = {b}] :
     m \in 1..MaxUses, f \in {StartTime, StartTime + 1},
     u \in {{}, {StartTime}}, r \in BOOLEAN,
     a \in {0, TicksPerDay - 1}, b \in {0}}

InitGate ==
  /\ now = StartTime
  /\ prize = PrizeDefaults
  /\ InitPrizeIdle
  /\ qr \in Gates
  /\ InitGateIdle
  /\ InitWheelIdle

\* One handler scans the gate, one call after the other.
NextGateSeq ==
  \/ Tick
  \/ GateLoad("s1")
  \/ \E c \in Clients : CallUse("s1", c)
  \/ UseSave("s1")
  \/ Deactivate("s1")

SpecGateSeq == InitGate /\ [][NextGateSeq]_vars

\* Gates with or without an allowed-hours window, one of them crossing
\* midnight, scanned from the middle of a day on by one handler.
HourGates ==
  {[GateDefaults EXCEPT !.max_uses = m, !.valid_from = f, !.valid_until = u,
                        !.time_restricted = r, !.allowed_hours_start = a,
                        !.allowed_hours_end = {0}] :
     m \in {1, 2}, f \in {0, StartTime}, u \in {{}, {StartTime}},
     r \in BOOLEAN, a \in {{}, {0}, {TicksPerDay - 1}}}

InitGateHours ==
  /\ now = StartTime - 1
  /\ prize = PrizeDefaults
  /\ InitPrizeIdle
  /\ qr \in HourGates
  /\ InitGateIdle
  /\ InitWheelIdle

SpecGateHours == InitGateHours /\ [][NextGateSeq]_vars

\* Handlers scan the gate concurrently, each on the copy it loaded.
NextGate ==
  \/ Tick
  \/ \E h \in Scanners : GateLoad(h)
  \/ \E h \in Scanners, c \in Clients : CallUse(h, c)
  \/ \E h \in Scanners : UseSave(h)
  \/ \E h \in Scanners : Deactivate(h)

SpecGate == InitGate /\ [][NextGate]_vars

\* ---------------------------------------------------------------- Roulette
\* A sector's probability is a percentage.  It is held here in hundredths of
\* a percent, so that the 0.01 of the validator is one unit.
Hundred == 10000      \* 100 percent
Tolerance == 1        \* 0.01 percent

Categories == {"basic", "premium"}
StoredPrizeIds == {"p1", "p2"}   \* the ids Prize.findByPk finds a row for
NoPrizeId == "null"
NoColor == "null"

Sector(p, w, c) == [prize_id |-> p, probability |-> w, color |-> c]

\* value.reduce((sum, sector) => sum + (sector.probability || 0), 0); a
\* sector without a probability counts 0, as one with probability 0 does.
RECURSIVE totalProbability(_)
totalProbability(value) ==
  IF value = <<>> THEN 0
  ELSE totalProbability(SubSeq(value, 1, Len(value) - 1))
         + value[Len(value)].probability

Abs(x) == IF x < 0 THEN -x ELSE x

withinTolerance_always(total, round) == TRUE

\* !(Math.abs(totalProbability - 100) > 0.01).  The sum is a sum of doubles:
\* a total exactly 0.01 away from 100 compares either way, by the rounding of
\* the additions (round).
withinTolerance(total, round) ==
  \/ Abs(total - Hundred) < Tolerance
  \/ Abs(total - Hundred) = Tolerance /\ round

sectorComplete_anyWeight(sector) ==
  /\ sector.prize_id # NoPrizeId
  /\ sector.color # NoColor

\* !(!sector.prize_id || !sector.probability || !sector.color)
sectorComplete(sector) ==
  /\ sector.prize_id # NoPrizeId
  /\ sector.probability # 0
  /\ sector.color # NoColor

\* The validator of column sectors_config: the error it throws, "none" when
\* it returns.
isValidSectors(value, round) ==
  IF ~withinTolerance(totalProbability(value), round) THEN "sum"
  ELSE IF \E i \in 1..Len(value) : ~sectorComplete(value[i]) THEN "sector"
  ELSE "none"

\* validateSectorsConfiguration: every sector's prize is a row of prizes.
validateSectorsConfiguration(value) ==
  \A i \in 1..Len(value) : value[i].prize_id \in StoredPrizeIds

\* The configurations the save() calls are made with.
SaveConfigs ==
  {<<>>,
   <<Sector("p1", 5000, "red"), Sector("p2", 5000, "blue")>>,
   <<Sector("p1", 15000, "red"), Sector("p2", -5000, "blue")>>,
   <<Sector("p1", 6000, "red"), Sector("p2", 3000, "blue")>>,
   <<Sector("p1", 9999, "red")>>,
   <<Sector("p9", 10000, "red")>>,
   <<Sector("p1", 10000, NoColor)>>}

WheelRows == 1..Len(wheels)

WheelFields == {"category", "is_default", "sectors_config"}

\* The row an instance's save writes: the changed fields over what is stored.
written(w, old) ==
  [category |-> IF "category" \in w.changed THEN w.category
                ELSE old.category,
   is_default |-> IF "is_default" \in w.changed THEN w.is_default
                  ELSE old.is_default,
   sectors_config |-> IF "sectors_config" \in w.changed THEN w.sectors_config
                      ELSE old.sectors_config]

\* Unique index on (category, is_default) where is_default: row i as r
\* collides with another default of its category.
uniqueDefaultViolated(i, r) ==
  /\ r.is_default
  /\ \E j \in WheelRows \ {i} :
       wheels[j].is_default /\ wheels[j].category = r.category

\* How a save() call ends: the row it wrote, or the error it threw; a
\* validation error carries the value it refused.
Saved == [result |-> "saved", reason |-> "none", value |-> <<>>]
Rejected(reason, value) ==
  [result |-> "rejected", reason |-> reason, value |-> value]

afterDefault(sc) == IF Len(sc) > 0 THEN "w_prizes" ELSE "w_write"

\* Roulette.create(values) (id = 0) or findByPk(id), set(values), save(), up
\* to the first statement: the validators run on the changed fields, on all
\* fields of a new instance.
CallSave(v, id, cat, def, sc, round) ==
  /\ wpc[v] = "idle"
  /\ saves[v] < MaxSaves
  /\ id = 0 =>
       Len(wheels) + Cardinality({u \in Savers : wpc[u] # "idle"
                                                 /\ wloc[u].id = 0})
         < MaxWheels
  /\ saves' = [saves EXCEPT ![v] = @ + 1]
  /\ LET changed == IF id = 0 THEN WheelFields
                    ELSE {f \in WheelFields :
                            [category |-> cat, is_default |-> def,
                             sectors_config |-> sc][f] # wheels[id][f]}
         err == IF "sectors_config" \in changed
                THEN isValidSectors(sc, round) ELSE "none"
     IN IF err # "none"
        THEN /\ wout' = [wout EXCEPT ![v] = Rejected(err, sc)]
             /\ UNCHANGED <<wpc, wloc>>
        ELSE /\ wout' = [wout EXCEPT ![v] = NoSave]
             /\ wloc' = [wloc EXCEPT ![v] =
                           [id |-> id, category |-> cat, is_default |-> def,
                            sectors_config |-> sc, changed |-> changed]]
             /\ wpc' = [wpc EXCEPT ![v] =
                          IF def THEN "w_default" ELSE afterDefault(sc)]
  /\ UNCHANGED <<now, issue, spinVars, prizeVars, gateVars, wheels, cfg, spun>>

WheelDeactivate_skip(v) ==
  /\ wpc[v] = "w_default"
  /\ wpc' = [wpc EXCEPT ![v] = afterDefault(wloc[v].sectors_config)]
  /\ UNCHANGED <<now, issue, spinVars, prizeVars, gateVars, wheels, wloc, wout, saves, cfg,
                 spun>>

\* beforeSave, the default branch: Roulette.update({is_default: false}) on
\* every other row of the instance's category.
WheelDeactivate(v) ==
  /\ wpc[v] = "w_default"
  /\ wheels' = [i \in WheelRows |->
                  IF wheels[i].category = wloc[v].category /\ i # wloc[v].id
                  THEN [wheels[i] EXCEPT !.is_default = FALSE]
                  ELSE wheels[i]]
  /\ wpc' = [wpc EXCEPT ![v] = afterDefault(wloc[v].sectors_config)]
  /\ UNCHANGED <<now, issue, spinVars, prizeVars, gateVars, wloc, wout, saves, cfg, spun>>

\* beforeSave, the sector branch: validateSectorsConfiguration().
WheelCheckPrizes(v) ==
  /\ wpc[v] = "w_prizes"
  /\ IF validateSectorsConfiguration(wloc[v].sectors_config)
     THEN /\ wpc' = [wpc EXCEPT ![v] = "w_write"]
          /\ UNCHANGED <<wout, wloc>>
     ELSE /\ wpc' = [wpc EXCEPT ![v] = "idle"]
          /\ wloc' = [wloc EXCEPT ![v] = NoWheel]
          /\ wout' = [wout EXCEPT ![v] = Rejected("prize", <<>>)]
  /\ UNCHANGED <<now, issue, spinVars, prizeVars, gateVars, wheels, saves, cfg, spun>>

\* The INSERT or UPDATE of save(), under the table's unique index.
WheelWrite(v) ==
  /\ wpc[v] = "w_write"
  /\ wpc' = [wpc EXCEPT ![v] = "idle"]
  /\ wloc' = [wloc EXCEPT ![v] = NoWheel]
  /\ LET w == wloc[v]
         i == IF w.id = 0 THEN Len(wheels) + 1 ELSE w.id
         r == IF w.id = 0 THEN written(w, NoWheel) ELSE written(w, wheels[i])
     IN IF w.changed # {} /\ uniqueDefaultViolated(i, r)
        THEN /\ wout' = [wout EXCEPT ![v] = Rejected("unique", <<>>)]
             /\ UNCHANGED wheels
        ELSE /\ wout' = [wout EXCEPT ![v] = Saved]
             /\ wheels' = IF w.id = 0 THEN Append(wheels, r)
                          ELSE [wheels EXCEPT ![i] = r]
  /\ UNCHANGED <<now, issue, spinVars, prizeVars, gateVars, saves, cfg, spun>>

InitWheel ==
  /\ InitCommon
  /\ prize = PrizeDefaults

\* One handler saves wheels, one call after the other.
NextWheel ==
  \/ \E id \in {0} \cup WheelRows, cat \in Categories, def \in BOOLEAN,
        sc \in SaveConfigs, round \in BOOLEAN :
       CallSave("v1", id, cat, def, sc, round)
  \/ WheelDeactivate("v1")
  \/ WheelCheckPrizes("v1")
  \/ WheelWrite("v1")

SpecWheel == InitWheel /\ [][NextWheel]_vars

\* ------------------------------------------------------------ selectPrize
\* Math.random() * 100 lies in [0, 100): the draws, on a grid.
Draws == {k * GridStep : k \in 0..((Hundred - 1) \div GridStep)}

reaches_strict(random, cumulative) == random < cumulative

\* random <= cumulative
reaches(random, cumulative) == random <= cumulative

\* An array read back from the JSON column holds one object per slot.
distinctObjects(sectors) == [i \in 1..Len(sectors) |-> i]

\* The loop of selectPrize from sector i on, and the fallback after it.
\* indexOf(sector) is the first slot that holds the object of slot i.
RECURSIVE selectFrom(_, _, _, _, _)
selectFrom(sectors, same, random, i, cumulative) ==
  IF i > Len(sectors)
  THEN [prize_id |-> sectors[Len(sectors)].prize_id,
        sector_index |-> Len(sectors) - 1,
        sector_config |-> sectors[Len(sectors)]]
  ELSE IF reaches(random, cumulative + sectors[i].probability)
       THEN [prize_id |-> sectors[i].prize_id,
             sector_index |-> same[i] - 1,
             sector_config |-> sectors[i]]
       ELSE selectFrom(sectors, same, random, i + 1,
                       cumulative + sectors[i].probability)

selectPrize(sectors, same, random) == selectFrom(sectors, same, random, 1, 0)

\* roulette.selectPrize() with Math.random() * 100 = random.
Spin(random) ==
  /\ spun' = IF cfg.sectors = <<>>
             THEN [NoSpin EXCEPT !.result = "error", !.r = random]
             ELSE LET won == selectPrize(cfg.sectors, cfg.same, random)
                  IN [result |-> "ok", r |-> random,
                      prize_id |-> won.prize_id,
                      sector_index |-> won.sector_index,
                      sector_config |-> won.sector_config]
  /\ UNCHANGED <<now, issue, spinVars, prizeVars, gateVars, wheels, wpc, wloc, wout, saves,
                 cfg>>

SelectSectors ==
  {Sector(p, w, "red") : p \in StoredPrizeIds,
                         w \in {-2500, 2500, 5000}}

\* The ways the slots of an array can share objects: slot i holds the object
\* first held by slot m[i].
Aliasings(sectors) ==
  {m \in [1..Len(sectors) -> 1..Len(sectors)] :
     \A i \in 1..Len(sectors) :
       m[i] <= i /\ m[m[i]] = m[i] /\ sectors[m[i]] = sectors[i]}

\* The wheels selectPrize() is called on: every list of up to MaxSectors
\* sectors, validated or not, read back from the table or built in memory.
SelectConfigs ==
  UNION {{[sectors |-> s, same |-> m] : m \in Aliasings(s)} :
           s \in UNION {[1..n -> SelectSectors] : n \in 0..MaxSectors}}

InitSelect ==
  /\ now = StartTime
  /\ prize = PrizeDefaults
  /\ qr = GateDefaults
  /\ InitGateIdle
  /\ InitPrizeIdle
  /\ wheels = <<>>
  /\ InitSaversIdle
  /\ InitIssuersIdle
  /\ InitSpinnersIdle
  /\ cfg \in SelectConfigs
  /\ spun = NoSpin

NextSelect == \E random \in Draws : Spin(random)

SpecSelect == InitSelect /\ [][NextSelect]_vars

\* ------------------------------------------------------------ code issuers
\* PrizeWinning.generateRedemptionCode and QRCode.generateUniqueCode are the
\* same loop over their own table: draw a candidate, look it up, stop at the
\* first one no row holds, give up after maxAttempts collisions.
maxAttempts == 10

\* findOne({ where: { redemption_code: code } }) / findOne({ where: { code } })
existing(g, k) ==
  IF g = "redemption"
  THEN \E i \in 1..Len(winnings) : k \in winnings[i].redemption_code
  ELSE qr.code = k

exhausted_late(n) == n > maxAttempts

\* attempts >= maxAttempts: the loop's exit test and the test before the throw
exhausted(n) == n >= maxAttempts

\* A call of the issuer.
IssueCall(g) ==
  /\ issue[g] = NoIssue
  /\ issue' = [issue EXCEPT ![g].pc = "loop"]
  /\ UNCHANGED <<now, prizeVars, gateVars, wheelVars, spinVars>>

\* One pass of the do-while: the candidate k is drawn and looked up.
IssueTry(g, k) ==
  /\ issue[g].pc = "loop"
  /\ LET n == IF existing(g, k) THEN issue[g].attempts + 1
              ELSE issue[g].attempts
         leave == ~existing(g, k) \/ exhausted(n)
     IN issue' = [issue EXCEPT ![g] =
                    [pc |-> IF leave THEN "done" ELSE "loop",
                     attempts |-> n,
                     draws |-> issue[g].draws + 1,
                     code |-> IF leave /\ ~exhausted(n) THEN k ELSE NoCode,
                     result |-> IF ~leave THEN "none"
                                ELSE IF exhausted(n) THEN "error"
                                ELSE "ok"]]
  /\ UNCHANGED <<now, prizeVars, gateVars, wheelVars, spinVars>>

\* Another request stores a record with the code k: PrizeWinning.create with
\* a redemption_code given, under the table's unique index.
CreateWithCode(k) ==
  /\ Len(winnings) < Cardinality(Drawers)
  /\ ~existing("redemption", k)
  /\ winnings' = Append(winnings,
                        NewWinning("c1", FALSE, {}, now, TRUE, {k}))
  /\ UNCHANGED <<now, issue, spinVars, prize, clients, drawVars, handleVars,
                 effects, lateEffect, notified, gateVars, wheelVars>>

InitIssue ==
  /\ InitCommon
  /\ prize = PrizeDefaults

NextIssue ==
  \/ \E g \in Issuers : IssueCall(g)
  \/ \E g \in Issuers, k \in Codes : IssueTry(g, k)
  \/ \E k \in Codes : CreateWithCode(k)

SpecIssue == InitIssue /\ [][NextIssue]_vars

\* ------------------------------------------------------------ the spin
\* A spin request of client c on wheel w: canClientSpin reads the clock,
\* asks isAvailable and then awaits the client's spins of the day, of the
\* week and within the cooldown; the request goes on to selectPrize and to
\* PrizeWinning.create only when the guard allowed it.
MaxSpins == 2

\* new Date() moves on, from a Friday into the Saturday after it.
SpinTick ==
  /\ now < StartTime - TicksPerDay + MaxTime + 1
  /\ now' = now + 1
  /\ UNCHANGED <<prizeVars, gateVars, wheelVars, issue, spinVars>>

\* Roulette.prototype.isAvailable
Roulette_isAvailable(r, t) ==
  IF ~r.is_active THEN [available |-> FALSE, reason |-> "Ruleta desactivada"]
  ELSE IF r.valid_from > t
    THEN [available |-> FALSE, reason |-> "Ruleta aun no valida"]
  ELSE IF \E u \in r.valid_until : u < t
    THEN [available |-> FALSE, reason |-> "Ruleta expirada"]
  ELSE IF GetDay(t) \notin r.available_days
    THEN [available |-> FALSE, reason |-> "Ruleta no disponible hoy"]
  ELSE IF \E start \in r.available_hours_start, end \in r.available_hours_end :
            IF start > end
              THEN ~(TimeOfDay(t) >= start \/ TimeOfDay(t) <= end)
              ELSE ~(TimeOfDay(t) >= start /\ TimeOfDay(t) <= end)
    THEN [available |-> FALSE,
          reason |-> "Ruleta no disponible en este horario"]
  ELSE [available |-> TRUE, reason |-> "none"]

SpinsSince_anyClient(c, w, since) ==
  Cardinality({i \in 1..Len(winnings) :
                 /\ winnings[i].roulette_id = w
                 /\ winnings[i].created_at >= since})

\* PrizeWinning.count / findOne({ where: { client_id, roulette_id,
\* created_at >= since } })
SpinsSince(c, w, since) ==
  Cardinality({i \in 1..Len(winnings) :
                 /\ winnings[i].client_id = c
                 /\ winnings[i].roulette_id = w
                 /\ winnings[i].created_at >= since})

\* How canClientSpin's answer is held by the request.
Refused(g, reason) ==
  /\ spc' = [spc EXCEPT ![g] = "s_guarded"]
  /\ sloc' = [sloc EXCEPT ![g].allowed = "no", ![g].reason = reason]

\* canClientSpin: const now = new Date(); this.isAvailable(now)
SpinCall(g, c, w) ==
  /\ spc[g] = "idle"
  /\ LET a == Roulette_isAvailable(roulette[w], now) IN
       /\ spc' = [spc EXCEPT ![g] = IF a.available THEN "s_day"
                                     ELSE "s_guarded"]
       /\ sloc' = [sloc EXCEPT ![g] =
                     [NoRequest EXCEPT !.wheel = w, !.client = c, !.t = now,
                                       !.allowed = IF a.available THEN "none"
                                                   ELSE "no",
                                       !.reason = a.reason]]
  /\ UNCHANGED <<now, issue, roulette, prizeVars, gateVars, wheelVars>>

\* canClientSpin: the spins of the day against max_spins_per_day
SpinCountDay(g) ==
  /\ spc[g] = "s_day"
  /\ LET q == sloc[g] IN
       IF \E m \in roulette[q.wheel].max_spins_per_day :
            m # 0 /\ SpinsSince(q.client, q.wheel, TodayStart(q.t)) >= m
         THEN Refused(g, "Limite diario de giros alcanzado")
         ELSE spc' = [spc EXCEPT ![g] = "s_week"] /\ sloc' = sloc
  /\ UNCHANGED <<now, issue, roulette, prizeVars, gateVars, wheelVars>>

\* canClientSpin: the spins of the week against max_spins_per_week
SpinCountWeek(g) ==
  /\ spc[g] = "s_week"
  /\ LET q == sloc[g] IN
       IF \E m \in roulette[q.wheel].max_spins_per_week :
            m # 0 /\ SpinsSince(q.client, q.wheel, WeekStart(q.t)) >= m
         THEN Refused(g, "Limite semanal de giros alcanzado")
         ELSE spc' = [spc EXCEPT ![g] = "s_cooldown"] /\ sloc' = sloc
  /\ UNCHANGED <<now, issue, roulette, prizeVars, gateVars, wheelVars>>

\* canClientSpin: the latest spin since now - cooldown_minutes, the minutes
\* counted in ticks; return { available: true } otherwise.
SpinCooldown(g) ==
  /\ spc[g] = "s_cooldown"
  /\ LET q == sloc[g]
         cooldown == roulette[q.wheel].cooldown_minutes IN
       IF cooldown > 0 /\ SpinsSince(q.client, q.wheel, q.t - cooldown) > 0
         THEN Refused(g, "Debes esperar")
         ELSE /\ spc' = [spc EXCEPT ![g] = "s_guarded"]
              /\ sloc' = [sloc EXCEPT ![g].allowed = "yes"]
  /\ UNCHANGED <<now, issue, roulette, prizeVars, gateVars, wheelVars>>

proceeds_always(q) == TRUE

\* The draw goes on only for a request the guard allowed.
proceeds(q) == q.allowed = "yes"

\* The guard refused: the request ends with the guard's answer.
SpinRefuse(g) ==
  /\ spc[g] = "s_guarded"
  /\ ~proceeds(sloc[g])
  /\ spc' = [spc EXCEPT ![g] = "idle"]
  /\ UNCHANGED <<now, issue, sloc, roulette, prizeVars, gateVars, wheelVars>>

\* roulette.selectPrize() with Math.random() * 100 = random
SpinSelect(g, random) ==
  /\ spc[g] = "s_guarded"
  /\ proceeds(sloc[g])
  /\ Len(winnings) < MaxSpins
  /\ LET sectors == roulette[sloc[g].wheel].sectors_config
         won == selectPrize(sectors, distinctObjects(sectors), random) IN
       sloc' = [sloc EXCEPT ![g].prize_id = won.prize_id]
  /\ spc' = [spc EXCEPT ![g] = "s_insert"]
  /\ UNCHANGED <<now, issue, roulette, prizeVars, gateVars, wheelVars>>

\* PrizeWinning.create({ client_id, prize_id, roulette_id })
SpinInsert(g) ==
  /\ spc[g] = "s_insert"
  /\ winnings' = Append(winnings,
                        [NewWinning(sloc[g].client, FALSE, {}, now, FALSE, {})
                           EXCEPT !.roulette_id = sloc[g].wheel])
  /\ spc' = [spc EXCEPT ![g] = "idle"]
  /\ sloc' = [sloc EXCEPT ![g] = NoRequest]
  /\ UNCHANGED <<now, issue, roulette, prize, clients, drawVars,
                 handleVars, effects, lateEffect, notified, gateVars,
                 wheelVars>>

\* Wheel 1 is inactive, or it may be closed on Saturdays, capped per day or
\* per week or have a cooldown of one tick; wheel 2 has the column defaults.
SpinSettings ==
  {[w \in SpinWheels |->
      IF w = 1 THEN r ELSE RouletteDefaults] :
     r \in {[RouletteDefaults EXCEPT !.is_active = FALSE]}
          \cup {[RouletteDefaults EXCEPT !.available_days = ds,
                                         !.max_spins_per_day = md,
                                         !.max_spins_per_week = mw,
                                         !.cooldown_minutes = cd] :
                  ds \in {0..6, 0..5}, md \in {{}, {1}}, mw \in {{}, {2}},
                  cd \in {0, 1}}}

InitSpin ==
  /\ now = StartTime - TicksPerDay
  /\ prize = PrizeDefaults
  /\ qr = GateDefaults
  /\ InitGateIdle
  /\ InitPrizeIdle
  /\ wheels = <<>>
  /\ InitSaversIdle
  /\ InitIssuersIdle
  /\ cfg = NoConfig
  /\ spun = NoSpin
  /\ spc = [g \in Spinners |-> "idle"]
  /\ sloc = [g \in Spinners |-> NoRequest]
  /\ roulette \in SpinSettings

NextSpin ==
  \/ SpinTick
  \/ \E g \in Spinners, c \in Clients, w \in SpinWheels : SpinCall(g, c, w)
  \/ \E g \in Spinners : SpinCountDay(g)
  \/ \E g \in Spinners : SpinCountWeek(g)
  \/ \E g \in Spinners : SpinCooldown(g)
  \/ \E g \in Spinners : SpinRefuse(g)
  \/ \E g \in Spinners, random \in Draws : SpinSelect(g, random)
  \/ \E g \in Spinners : SpinInsert(g)

SpecSpin == InitSpin /\ [][NextSpin]_vars

\* ------------------------------------------------------------------ claims
Rows == 1..Len(winnings)

\* The step is a call of the named method by handler h: it ended at once
\* with an error, or it went on to the method's first await.
ApplyCalled(h) ==
  /\ calls'[h] = calls[h] + 1
  /\ \/ hpc'[h] = "apply_find"
     \/ hpc'[h] = "idle" /\ outcome'[h].op = "apply"

CancelCalled(h) ==
  /\ calls'[h] = calls[h] + 1
  /\ \/ hpc'[h] = "cancel_save"
     \/ hpc'[h] = "idle" /\ outcome'[h].op = "cancel"

\* The step is a call by h that failed and changed nothing.
FailedUnchanged(h) ==
  /\ hpc'[h] = "idle"
  /\ outcome'[h].result = "error"
  /\ winnings' = winnings
  /\ inst' = inst
  /\ prize' = prize
  /\ effects' = effects
  /\ notified' = notified

\* C1: once a record's row has status applied or redeemed, no step of any
\* apply, redeem, verify or cancel call, on any loaded copy, changes the
\* row's status.
C1_TerminalStatus ==
  [][\A i \in Rows :
       winnings[i].status \in {"applied", "redeemed"}
         => winnings'[i].status = winnings[i].status]_vars

\* C2: for every record the prize's side effect runs at most once, and never
\* while the record's row is cancelled.
C2_EffectAtMostOnce ==
  \A i \in WinningIds : effects[i] <= 1 /\ ~lateEffect[i]

\* C6: a record is pending when it is created, and every change of a row's
\* status starts from pending.
C6_OnlyFromPending ==
  [][/\ \A i \in Rows :
          winnings'[i].status # winnings[i].status
            => winnings[i].status = "pending"
     /\ \A i \in (Len(winnings) + 1)..Len(winnings') :
          winnings'[i].status = "pending"]_vars

\* C7: cancel() called on an instance whose status is applied or redeemed
\* ends with an error, leaves the instance and every row as they were, and
\* creates no notification.
C7_CancelRefused ==
  [][\A h \in Handles :
       CancelCalled(h) /\ inst[h].row.status \in {"applied", "redeemed"}
         => FailedUnchanged(h)]_vars

C7_Witness ==
  \E h \in Handles :
    /\ outcome[h] = Ended("cancel", "error", "No se puede cancelar")
    /\ inst[h].id # 0
    /\ inst[h].row.status = "applied"
    /\ winnings[inst[h].id].status = "applied"
    /\ winnings[inst[h].id].cancelled_date = {}

\* C8: cancel() goes ahead on a pending record, and on a record of any other
\* status (a cancelled one included) it ends with an error and changes
\* nothing.
C8_CancelOnlyPending ==
  [][\A h \in Handles :
       CancelCalled(h) =>
         IF inst[h].row.status = "pending"
           THEN hpc'[h] = "cancel_save"
           ELSE FailedUnchanged(h)]_vars

\* C9: apply() called on an instance with requires_verification and without
\* verified ends with an error and changes nothing; and no row that requires
\* verification is applied, or has had its side effect run, unless its
\* verification is recorded.
C9_ApplyNeedsVerification ==
  [][/\ \A h \in Handles :
          /\ ApplyCalled(h)
          /\ inst[h].row.requires_verification
          /\ ~inst[h].row.verified
          => FailedUnchanged(h)
     /\ \A i \in 1..Len(winnings') :
          /\ winnings'[i].requires_verification
          /\ winnings'[i].status = "applied" \/ effects'[i] > 0
          => winnings'[i].verified]_vars

\* An apply() was refused for want of verification, and the record was
\* applied after another handler's verify().
C9_Witness ==
  \E h \in Handles :
    /\ outcome[h] = Ended("apply", "error", "Requiere verificacion")
    /\ inst[h].id # 0
    /\ ~inst[h].row.verified
    /\ winnings[inst[h].id].requires_verification
    /\ winnings[inst[h].id].verified
    /\ winnings[inst[h].id].status = "applied"
    /\ effects[inst[h].id] = 1

\* C10: a row that requires verification and has none recorded stays
\* pending, whatever method is called.
C10_BlockedUntilVerified ==
  [][\A i \in Rows :
       /\ winnings[i].status = "pending"
       /\ winnings[i].requires_verification
       /\ ~winnings[i].verified
       => winnings'[i].status = "pending"]_vars

\* C3: the records created for the prize in one day never exceed
\* max_per_day, in one week never max_per_week, and for one client never
\* max_per_client.
CreatedOn(day) == {i \in Rows : DayOf(winnings[i].created_at) = day}
CreatedInWeekOf(t) ==
  {i \in Rows : WeekStart(winnings[i].created_at) = WeekStart(t)}

C3_CapsRespected ==
  /\ \A m \in prize.max_per_day : \A i \in Rows :
       Cardinality(CreatedOn(DayOf(winnings[i].created_at))) <= m
  /\ \A m \in prize.max_per_week : \A i \in Rows :
       Cardinality(CreatedInWeekOf(winnings[i].created_at)) <= m
  /\ \A m \in prize.max_per_client : \A c \in Clients : CountClient(c) <= m

\* C4: with a stock ceiling set, awarded_count never exceeds it.
C4_StockCeiling ==
  \A s \in prize.stock_quantity : prize.awarded_count <= s

\* C5: after any sequence of use() calls 0 <= current_uses <= max_uses; the
\* gate is marked used exactly when current_uses equals max_uses; a use() of
\* an exhausted gate is rejected and changes nothing; and on a gate that is
\* active, within its validity and not time-restricted, a use() goes through
\* exactly when fewer than max_uses uses went through before it.
UseCalled(h) ==
  /\ attempts'[h] = attempts[h] + 1
  /\ \/ qpc'[h] = "use_save"
     \/ qpc'[h] = "idle" /\ qout'[h].result = "error"

UseRejected(h) ==
  /\ qpc'[h] = "idle"
  /\ qout'[h].result = "error"
  /\ qr' = qr
  /\ qinst' = qinst
  /\ successes' = successes

GateOpen(g, t) ==
  /\ g.is_active
  /\ g.valid_from <= t
  /\ g.valid_until = {}
  /\ ~g.time_restricted

C5_GateUses ==
  [][/\ 0 <= qr'.current_uses
     /\ qr'.current_uses <= qr'.max_uses
     /\ qr'.is_used <=> qr'.current_uses = qr'.max_uses
     /\ \A h \in Scanners : qpc'[h] = "idle" => successes' = qr'.current_uses
     /\ \A h \in Scanners :
          UseCalled(h) =>
            /\ qr.current_uses >= qr.max_uses => UseRejected(h)
            /\ GateOpen(qr, now) =>
                 (qpc'[h] = "use_save" <=> successes < qr.max_uses)]_vars

\* A gate with max_uses = 3 was used three times and a fourth use() was
\* rejected as exhausted.
C5_Witness ==
  /\ qr.max_uses = 3
  /\ qr.current_uses = 3
  /\ successes = 3
  /\ qr.is_used
  /\ SumOver(attempts, Scanners) = 4
  /\ \E h \in Scanners :
       qout[h] = [result |-> "error", reason |-> "Codigo agotado"]

\* C11: a record becomes redeemed only through a caller that presented the
\* record's redemption code, and while it is not expired; a redeem() by a
\* caller that presented no code, or another code, ends with an error and
\* changes nothing.
RedeemCalled(h) ==
  /\ calls'[h] = calls[h] + 1
  /\ \/ hpc'[h] = "redeem_save"
     \/ hpc'[h] = "idle" /\ outcome'[h].op = "redeem"

C11_RedeemNeedsCode ==
  [][\A h \in Handles :
       /\ RedeemCalled(h) /\ inst[h].by \notin inst[h].row.redemption_code
            => FailedUnchanged(h)
       /\ RedeemCalled(h) /\ isExpired(inst[h].row, now)
            => FailedUnchanged(h)
       /\ \A i \in Rows :
            /\ inst[h].id = i
            /\ winnings[i].status = "pending"
            /\ winnings'[i].status = "redeemed"
            => inst[h].by \in winnings[i].redemption_code]_vars

\* C12: an apply() that ends having applied the record leaves the row
\* applied, has added exactly one to the prize's redeemed_count, and has
\* created a notification before returning.
ApplyReturnedOk(h) ==
  /\ hpc[h] \in {"apply_incr", "apply_notify"}
  /\ hpc'[h] = "idle"
  /\ outcome'[h] = Ended("apply", "ok", "none")

C12_ApplyOutcome ==
  [][\A h \in Handles :
       /\ hpc[h] = "apply_incr" /\ hpc'[h] # "apply_incr"
            => /\ winnings[inst[h].id].status = "applied"
               /\ prize'.redeemed_count = prize.redeemed_count + 1
       /\ ApplyReturnedOk(h)
            => /\ winnings'[inst[h].id].status = "applied"
               /\ hpc[h] = "apply_notify"
               /\ notified'[inst[h].id].won = notified[inst[h].id].won + 1]_vars

\* C13: between calls, the client's active membership ends later than it
\* did at the start by the prize's value for every membership_days record
\* of the client that is applied; so a client with an applied record has an
\* active membership that was extended.
AppliedFor(c) ==
  {i \in Rows : winnings[i].client_id = c /\ winnings[i].status = "applied"}

C13_MembershipExtended ==
  \A c \in Clients :
    /\ \A h \in Handles : hpc[h] = "idle"
    /\ prize.type = "membership_days"
    /\ AppliedFor(c) # {}
    => /\ clients[c].end_date # {}
         /\ \A e \in clients[c].end_date, e0 \in ClientRows[c].end_date :
              100 * (e - e0) = prize.value * Cardinality(AppliedFor(c))

\* The record exists, is pending, and its expiration has passed.
Overdue(i) ==
  /\ i \in Rows
  /\ winnings[i].status = "pending"
  /\ \E e \in winnings[i].expires_date : now > e

\* A step of the sweep changes only rows that were pending and overdue, and
\* a row becomes expired only from pending and overdue.
SweepFrame ==
  \A i \in Rows :
    /\ winnings'[i].status = "expired" /\ winnings[i].status # "expired"
         => Overdue(i)
    /\ hpc' = hpc /\ dpc' = dpc /\ winnings'[i] # winnings[i]
         => Overdue(i) /\ winnings'[i] = [winnings[i] EXCEPT !.status = "expired"]

historyTrail(w) ==
  {[status |-> "applied", previous |-> "null", timestamp |-> d,
    reason |-> NoReason] : d \in w.applied_date}
  \cup {[status |-> "redeemed", previous |-> "null", timestamp |-> d,
         reason |-> NoReason] : d \in w.redeemed_date}
  \cup {[status |-> "cancelled", previous |-> "null", timestamp |-> d,
         reason |-> w.cancelled_reason] : d \in w.cancelled_date}

\* C15: every change of a row's status adds exactly one entry to the row's
\* history, holding the new status and the status before, and no step
\* changes or removes an entry the history already had.
C15_HistoryAppended ==
  [][\A i \in Rows :
       /\ historyTrail(winnings[i]) \subseteq historyTrail(winnings'[i])
       /\ winnings'[i].status # winnings[i].status
            => /\ Cardinality(historyTrail(winnings'[i]))
                    = Cardinality(historyTrail(winnings[i])) + 1
               /\ \E e \in historyTrail(winnings'[i])
                            \ historyTrail(winnings[i]) :
                    /\ e.status = winnings'[i].status
                    /\ e.previous = winnings[i].status]_vars

\* The configuration handler v's save() call of this step was made with.
Submitted(v) ==
  IF wpc'[v] = "idle" THEN wout'[v].value ELSE wloc'[v].sectors_config

\* C16: every stored wheel's sector weights sum to 100 within 0.01, and a
\* save() of a configuration whose weights sum to more than 0.01 away from
\* 100, the empty list among them, is rejected and stores nothing.
C16_SumWithinTolerance ==
  /\ [](\A i \in WheelRows :
          Abs(totalProbability(wheels[i].sectors_config) - Hundred)
            <= Tolerance)
  /\ [][\A v \in Savers :
          /\ saves'[v] = saves[v] + 1
          /\ wpc'[v] # "idle" => "sectors_config" \in wloc'[v].changed
          /\ Abs(totalProbability(Submitted(v)) - Hundred) > Tolerance
          => /\ wout'[v].result = "rejected"
             /\ wpc'[v] = "idle"
             /\ wheels' = wheels]_vars

\* A wheel whose weights sum to 99.99 is stored, and the save() of an empty
\* sector list has just been rejected for its sum.
C16_Witness ==
  /\ \E i \in WheelRows :
       totalProbability(wheels[i].sectors_config) = Hundred - Tolerance
  /\ wpc["v1"] = "idle"
  /\ wout["v1"] = Rejected("sum", <<>>)

\* C17: no stored wheel has a sector of negative weight.
C17_WeightsNonNegative ==
  \A i \in WheelRows :
    \A k \in 1..Len(wheels[i].sectors_config) :
      wheels[i].sectors_config[k].probability >= 0

\* The sectors of the wheel whose cumulative weight reaches the draw r.
Reaching(sectors, r) ==
  {i \in 1..Len(sectors) : totalProbability(SubSeq(sectors, 1, i)) >= r}

\* The slot the draw r stands for: the lowest that reaches r, else the last.
Selected(sectors, r) ==
  IF Reaching(sectors, r) = {} THEN Len(sectors)
  ELSE CHOOSE i \in Reaching(sectors, r) :
         \A j \in Reaching(sectors, r) : i <= j

\* C18: on a wheel with at least one sector, selectPrize returns the sector
\* of the lowest slot whose cumulative weight is at least the draw, the last
\* sector when none is; sector_index is a slot of the wheel that holds the
\* returned sector (its own slot when every slot holds its own object), and
\* prize_id is that sector's prize.
C18_SelectsFirstReaching ==
  spun.result = "ok" =>
    LET k == Selected(cfg.sectors, spun.r)
    IN /\ spun.sector_config = cfg.sectors[k]
       /\ spun.sector_index \in 0..(Len(cfg.sectors) - 1)
       /\ cfg.sectors[spun.sector_index + 1] = spun.sector_config
       /\ cfg.same = distinctObjects(cfg.sectors) => spun.sector_index = k - 1
       /\ spun.prize_id = cfg.sectors[k].prize_id

\* A draw no cumulative weight reached fell back to the last of three
\* sectors.
C18_Witness ==
  /\ spun.result = "ok"
  /\ Len(cfg.sectors) = 3
  /\ Reaching(cfg.sectors, spun.r) = {}
  /\ spun.sector_index = 2

\* The draws of the grid for which selectPrize returns slot k of a stored
\* wheel.
DrawsFor(sectors, k) ==
  {r \in Draws :
     selectPrize(sectors, distinctObjects(sectors), r).sector_index = k - 1}

\* C19: on every stored wheel, the draws that select a sector make up the
\* share of [0, 100) that the sector's weight is of 100, to within one step
\* of the grid.
C19_SharesFollowWeights ==
  \A i \in WheelRows :
    \A k \in 1..Len(wheels[i].sectors_config) :
      Abs(Cardinality(DrawsFor(wheels[i].sectors_config, k)) * GridStep
            - wheels[i].sectors_config[k].probability) <= GridStep

\* The stored defaults of a category.
DefaultsOf(cat) ==
  {i \in WheelRows : wheels[i].is_default /\ wheels[i].category = cat}

\* C20: under saves made one after the other, a category never has two
\* default wheels; a save as default goes through and leaves its row the only
\* default of its category; and a step changes a stored row only if it is
\* the row being written, or to clear the default flag of a row in the
\* category of a wheel being saved as default.
C20_OneDefaultPerCategory ==
  /\ [](\A cat \in Categories : Cardinality(DefaultsOf(cat)) <= 1)
  /\ [][\A v \in Savers :
          wpc[v] = "w_write" /\ wpc'[v] = "idle"
          => /\ wout'[v] = Saved
             /\ wloc[v].is_default
                  => LET i == IF wloc[v].id = 0 THEN Len(wheels')
                              ELSE wloc[v].id
                     IN /\ wheels'[i].is_default
                        /\ wheels'[i].category = wloc[v].category
                        /\ \A j \in WheelRows \ {i} :
                             wheels'[j].category = wloc[v].category
                               => ~wheels'[j].is_default]_vars
  /\ [][\A j \in WheelRows :
          wheels'[j] # wheels[j]
          => \E v \in Savers :
               \/ wpc[v] = "w_write" /\ wloc[v].id = j
               \/ /\ wpc[v] = "w_default"
                  /\ wloc[v].is_default
                  /\ wloc[v].category = wheels[j].category
                  /\ wloc[v].id # j
                  /\ wheels'[j] = [wheels[j] EXCEPT !.is_default = FALSE]]_vars

\* A third wheel has just been saved as the default of a category that has
\* an older wheel, no longer default, while the other category keeps its
\* default.
C20_Witness ==
  /\ Len(wheels) = 3
  /\ wpc["v1"] = "idle"
  /\ wout["v1"] = Saved
  /\ wheels[3].is_default
  /\ \E j \in {1, 2} :
       /\ wheels[j].category = wheels[3].category
       /\ ~wheels[j].is_default
  /\ \E j \in {1, 2} :
       /\ wheels[j].category # wheels[3].category
       /\ wheels[j].is_default

\* C21: an issuer never draws more than 10 candidates and has ended once it
\* drew the 10th; it returns a candidate exactly when that candidate, no row
\* holding it, came after fewer than 10 collisions, each collision costing
\* one more draw; and it fails exactly when 10 candidates collided.
C21_IssuerBounded ==
  /\ [](\A g \in Issuers :
          /\ issue[g].draws <= maxAttempts
          /\ issue[g].draws = maxAttempts => issue[g].pc = "done"
          /\ issue[g].result = "ok"
               => /\ issue[g].draws = issue[g].attempts + 1
                  /\ issue[g].code # NoCode
          /\ issue[g].result = "error"
               <=> issue[g].pc = "done" /\ issue[g].attempts = maxAttempts
          /\ issue[g].result = "error" => issue[g].draws = maxAttempts)
  /\ [][\A g \in Issuers :
          issue'[g].result = "ok" /\ issue[g].result # "ok"
          => ~existing(g, issue'[g].code)]_vars

\* One issuer succeeded on its second draw after a single collision, the
\* other gave up after ten.
C21_Witness ==
  /\ issue["qr"].result = "ok"
  /\ issue["qr"].attempts = 1
  /\ issue["qr"].draws = 2
  /\ issue["redemption"].result = "error"
  /\ issue["redemption"].draws = maxAttempts

\* C22: no two records that are not cancelled hold the same redemption code.
C22_CodesUnique ==
  \A i, j \in Rows :
    /\ i # j
    /\ winnings[i].status # "cancelled"
    /\ winnings[j].status # "cancelled"
    => winnings[i].redemption_code \cap winnings[j].redemption_code = {}

\* Two requests had both been issued the same code before either record was
\* inserted; the first is stored with it and the second was refused.
C22_Witness ==
  /\ Len(winnings) = 1
  /\ winnings[1].redemption_code # {}
  /\ \E d \in Drawers :
       /\ dpc[d] = "done"
       /\ dloc[d].result = "redemption_code must be unique"

\* Records created on or after the given day.
CreatedFromDay(day) == {i \in Rows : DayOf(winnings[i].created_at) >= day}

\* C23: checkLimits refuses for the daily cap exactly when the prize has one
\* and at least that many records were created since the start of the current
\* day, and for the weekly cap exactly when the prize has one and at least
\* that many records were created since the start of the current week, which
\* starts on Sunday; the current day and week are those of the clock value
\* the call read on entry. It refuses for no other reason.
C23_LimitsExact ==
  [][\A d \in Drawers :
       /\ dpc[d] = "d_day" /\ dpc'[d] # "d_day"
            => (dloc'[d].result = "Limite diario alcanzado"
                  <=> \E m \in dloc[d].prize.max_per_day :
                        Cardinality(CreatedFromDay(DayOf(now))) >= m)
       /\ dpc[d] = "d_week" /\ dpc'[d] # "d_week"
            => (dloc'[d].result = "Limite semanal alcanzado"
                  <=> \E m \in dloc[d].prize.max_per_week :
                        Cardinality(CreatedFromDay(
                          DayOf(dloc[d].t) - GetDay(dloc[d].t))) >= m)
       /\ dpc[d] \in {"d_day", "d_week"} /\ dpc'[d] = "done"
            => dloc'[d].result \in {"Limite diario alcanzado",
                                    "Limite semanal alcanzado"}]_vars

\* With max_per_day = 1 one client holds a record created today and the
\* other request was refused for the daily cap.
C23_Witness ==
  /\ prize.max_per_day = {1}
  /\ Len(winnings) = 1
  /\ winnings[1].client_id = "c1"
  /\ DayOf(winnings[1].created_at) = DayOf(now)
  /\ \E d \in Drawers :
       dpc[d] = "done" /\ dloc[d].result = "Limite diario alcanzado"

AvailabilityReasons ==
  {"Premio desactivado", "Premio aun no valido", "Premio expirado",
   "Premio agotado"}

\* C24: isAvailable answers available exactly when the prize is active, the
\* clock is not before valid_from, not after valid_until when one is set, and
\* awarded_count is below stock_quantity when one is set; otherwise it
\* answers not available with a reason, as a returned value.
C24_AvailableExact ==
  [][\A d \in Drawers :
       dpc[d] = "idle" /\ dpc'[d] # "idle"
         => LET ok == /\ prize.is_active
                      /\ ~(now < prize.valid_from)
                      /\ \A u \in prize.valid_until : ~(now > u)
                      /\ \A q \in prize.stock_quantity :
                           prize.awarded_count < q
            IN IF ok
                 THEN dpc'[d] = "d_day" /\ dloc'[d].result = "none"
                 ELSE /\ dpc'[d] = "done"
                      /\ dloc'[d].result \in AvailabilityReasons]_vars

\* One request won the only unit of an active prize within its window and
\* the other was answered that the stock is exhausted.
C24_Witness ==
  /\ prize.is_active
  /\ prize.stock_quantity = {1}
  /\ prize.awarded_count = 1
  /\ prize.valid_until = {now}
  /\ \E d \in Drawers : dpc[d] = "done" /\ dloc[d].result = "Premio agotado"

\* The rules of checkClientEligibility that client c fails for draw d, by
\* their place in the order: 1 age, 2 tenure, 3 membership type, 4 cap.
FailedRules(d, c) ==
  {n \in 1..4 :
     \/ n = 1 /\ \E m \in dloc[d].prize.minimum_age :
                   \A a \in clients[c].age : a < m
     \/ n = 2 /\ (now - clients[c].registration_date) \div TicksPerDay
                   < dloc[d].prize.minimum_membership_days
     \/ n = 3 /\ clients[c].membership_type
                   \cap dloc[d].prize.excluded_membership_types # {}
     \/ n = 4 /\ \E m \in dloc[d].prize.max_per_client :
                   Cardinality({i \in Rows : winnings[i].client_id = c}) >= m}

RuleReason(n) ==
  CASE n = 1 -> "Edad minima requerida"
    [] n = 2 -> "Requiere dias de membresia"
    [] n = 3 -> "Tipo de membresia no elegible"
    [] n = 4 -> "Limite por cliente alcanzado"

\* C25: checkClientEligibility answers with the reason of the earliest
\* failing rule in the order age, tenure, membership type, per-client cap,
\* and answers eligible only when none of the four fails.
C25_FirstFailingRule ==
  [][\A d \in Drawers :
       /\ dpc[d] = "d_client" /\ dpc'[d] # "d_client"
       /\ dloc[d].client \in DOMAIN clients
       => LET failed == FailedRules(d, dloc[d].client) IN
            IF failed = {}
              THEN dpc'[d] = "d_insert"
              ELSE /\ dpc'[d] = "done"
                   /\ \E n \in failed :
                        /\ \A k \in failed : n <= k
                        /\ dloc'[d].result = RuleReason(n)]_vars

\* Client c1 is under age, registered today, of an excluded type and holds
\* a record of the capped prize; a request was answered with the age rule.
C25_Witness ==
  /\ prize.minimum_age = {18} /\ clients["c1"].age = {16}
  /\ prize.minimum_membership_days = 1
  /\ clients["c1"].registration_date = StartTime
  /\ prize.excluded_membership_types = {"basic"}
  /\ prize.max_per_client = {1}
  /\ \E i \in Rows : winnings[i].client_id = "c1"
  /\ \E d \in Drawers :
       dpc[d] = "done" /\ dloc[d].result = "Edad minima requerida"

\* C26: a call of checkClientEligibility for a client that does not exist
\* ends with a thrown not-found error, and every rule failure is a returned
\* answer.
C26_MissingClientThrows ==
  [][\A d \in Drawers :
       dpc[d] = "d_client" /\ dpc'[d] = "done"
         => (dloc'[d].threw <=> dloc[d].client \notin DOMAIN clients)]_vars

\* The records of client c on wheel w created at or after tick since.
OwnSpins(c, w, since) ==
  {i \in Rows : /\ winnings[i].client_id = c
                /\ winnings[i].roulette_id = w
                /\ winnings[i].created_at >= since}

C28_SelectAfterGuard ==
  /\ [](\A g \in Spinners :
          spc[g] = "s_insert" \/ sloc[g].prize_id # NoPrizeId
            => sloc[g].allowed = "yes")
  /\ [][\A g \in Spinners :
          sloc'[g].prize_id # sloc[g].prize_id /\ sloc'[g].prize_id # NoPrizeId
            => /\ spc[g] = "s_guarded"
               /\ sloc[g].allowed = "yes"
               /\ sloc'[g].client = sloc[g].client
               /\ sloc'[g].wheel = sloc[g].wheel
               /\ sloc'[g].t = sloc[g].t]_vars

\* A client who already holds a record on the capped wheel 1 asked again a
\* day later, the guard allowed it and selectPrize drew a prize.
C28_Witness ==
  \E g \in Spinners :
    /\ spc[g] = "s_insert"
    /\ sloc[g].prize_id \in StoredPrizeIds
    /\ sloc[g].wheel = 1
    /\ roulette[1].max_spins_per_day = {1}
    /\ \E i \in Rows : /\ winnings[i].client_id = sloc[g].client
                       /\ winnings[i].roulette_id = 1

\* The time of day tod lies in the window from start to end, a window with
\* start > end being the one that crosses midnight.
InWindow(tod, start, end) ==
  IF start > end THEN tod >= start \/ tod <= end
                 ELSE start <= tod /\ tod <= end

\* The gate refuses a use at tick t.
GateRefuses(g, t) ==
  \/ ~g.is_active
  \/ g.current_uses >= g.max_uses
  \/ t < g.valid_from
  \/ \E u \in g.valid_until : t > u
  \/ /\ g.time_restricted
     /\ \E start \in g.allowed_hours_start, end \in g.allowed_hours_end :
          ~InWindow(t % TicksPerDay, start, end)

\* C29: a use() is rejected with an error whenever the gate is inactive, its
\* uses are exhausted, the clock is outside the validity window or, on a
\* time-restricted gate with both hours set, the time of day is outside the
\* allowed hours; it goes through otherwise; and a rejected use() leaves
\* current_uses, is_used, used_date and used_by_client_id as they were.
C29_UseRejected ==
  [][\A h \in Scanners :
       UseCalled(h)
         => /\ GateRefuses(qr, now) <=> qout'[h].result = "error"
            /\ qout'[h].result = "error"
                 => /\ qpc'[h] = "idle"
                    /\ \A f \in {"current_uses", "is_used", "used_date",
                                 "used_by_client_id"} :
                         /\ qr'[f] = qr[f]
                         /\ qinst'[h].row[f] = qinst[h].row[f]]_vars

\* In the middle of the day a use() of an active, unused gate whose allowed
\* hours run from the last tick of a day to the first of the next was
\* rejected for the hour.
C29_Witness ==
  /\ qr.time_restricted
  /\ qr.allowed_hours_start = {TicksPerDay - 1}
  /\ qr.allowed_hours_end = {0}
  /\ qr.is_active /\ qr.current_uses = 0 /\ ~qr.is_used
  /\ TimeOfDay(now) = 1
  /\ \E h \in Scanners :
       qout[h] = [result |-> "error",
                  reason |-> "Codigo no valido en este horario"]

\* C30: a use() that goes through raises current_uses by exactly 1 and
\* scan_count by exactly 1, and returns max_uses minus the new current_uses,
\* which is never negative, with the gate's prize_category.
C30_UseCounts ==
  [][\A h \in Scanners :
       qpc[h] = "use_save" /\ qpc'[h] = "idle"
         => /\ qr'.current_uses = qr.current_uses + 1
            /\ qr'.scan_count = qr.scan_count + 1
            /\ qout'[h].result = "ok"
            /\ qout'[h].uses_remaining = qr.max_uses - qr'.current_uses
            /\ qout'[h].uses_remaining >= 0
            /\ qout'[h].prize_category = qr.prize_category]_vars

\* The second use of a gate with max_uses = 3 returned one remaining use.
C30_Witness ==
  /\ qr.max_uses = 3
  /\ qr.current_uses = 2
  /\ qr.scan_count = 2
  /\ ~qr.is_used
  /\ \E h \in Scanners :
       /\ qout[h].result = "ok"
       /\ qout[h].uses_remaining = 1
       /\ qout[h].prize_category = qr.prize_category

\* The columns of a record that say whose it is, what was won and where.
IdentityFields ==
  {"client_id", "prize_id", "roulette_id", "qr_code_id", "prize_name",
   "prize_type", "prize_value", "prize_currency"}

\* C31: once a record is created, no step of apply, redeem, verify, cancel
\* or sendNotification, and no edit of the catalog prize, changes its
\* client_id, prize_id, roulette_id, qr_code_id, prize_name, prize_type,
\* prize_value or prize_currency, and the record is never removed.
C31_IdentityKept ==
  [][/\ Len(winnings') >= Len(winnings)
     /\ \A i \in Rows : \A f \in IdentityFields :
          winnings'[i][f] = winnings[i][f]]_vars

\* The catalog prize was edited after the record was won, and the record,
\* since then applied or cancelled and notified, still holds the value it
\* was won with.
C31_Witness ==
  /\ Len(winnings) = 1
  /\ prize.value = NewValue
  /\ winnings[1].prize_value = 0
  /\ winnings[1].status \in {"applied", "cancelled"}
  /\ winnings[1].notification_sent
  /\ \A h \in Handles : hpc[h] = "idle"

\* C32: the use() calls that went through on a gate never number more than
\* its max_uses, whatever the interleaving of calls made on separately
\* loaded copies.
C32_UsesWithinMax == successes <= qr.max_uses

\* C33: apply() and redeem() called for a pending record whose expires_date
\* has passed end with an expiration error at once: no side effect runs, no
\* row and no notification changes, and the prize's redeemed_count stays.
C33_ExpiredRefused ==
  [][\A h \in Handles :
       /\ ApplyCalled(h) \/ RedeemCalled(h)
       /\ winnings[inst[h].id].status = "pending"
       /\ \E e \in winnings[inst[h].id].expires_date : now > e
       => /\ hpc'[h] = "idle"
          /\ outcome'[h].result = "error"
          /\ outcome'[h].reason \in {"Premio expirado", "El premio ha expirado"}
          /\ winnings' = winnings
          /\ prize' = prize
          /\ clients' = clients
          /\ effects' = effects
          /\ notified' = notified]_vars

\* A redeem() of a pending record past its expires_date ended with the
\* expiration error; the record is still pending and nothing was counted.
C33_Witness ==
  \E h \in Handles :
    /\ outcome[h] = Ended("redeem", "error", "El premio ha expirado")
    /\ inst[h].id # 0
    /\ winnings[inst[h].id].status = "pending"
    /\ \E e \in winnings[inst[h].id].expires_date : now > e
    /\ prize.redeemed_count = 0
    /\ effects[inst[h].id] = 0

\* C34: whenever no use() call is in progress, the gate's scan_count equals
\* the number of use() calls made so far, the rejected ones included.
C34_ScanCountsAttempts ==
  (\A h \in Scanners : qpc[h] = "idle")
    => qr.scan_count = SumOver(attempts, Scanners)

\* C35: whenever no creation is in progress, the prize's awarded_count equals
\* the number of records created, whatever the interleaving of the
\* creations' afterCreate hooks.
C35_AwardedCountsRecords ==
  (\A d \in Drawers : dpc[d] \in {"idle", "done"})
    => prize.awarded_count = Len(winnings)

\* The records whose row says the prize was handed over.
HandedOver == {i \in Rows : winnings[i].status \in {"applied", "redeemed"}}

\* No creation and no call on a record is in progress.
Quiescent ==
  /\ \A d \in Drawers : dpc[d] \in {"idle", "done"}
  /\ \A h \in Handles : hpc[h] = "idle"

\* C36: whenever no creation and no call is in progress, the prize's
\* redeemed_count equals the number of records whose status is applied or
\* redeemed, and so does not exceed awarded_count.
C36_RedeemedCountsRecords ==
  Quiescent
    => /\ prize.redeemed_count = Cardinality(HandedOver)
       /\ prize.redeemed_count <= prize.awarded_count

\* The verify() that handler h is running is bound to fail: the prize is applied
\* automatically and the copy h holds is not pending or is past its
\* expires_date, so the apply() that ends verify() will throw.
VerifyBoundToFail(h) ==
  /\ hpc[h] = "verify_save"
  /\ prize.auto_apply
  /\ inst[h].row.status # "pending" \/ isExpired(inst[h].row, now)

\* C37: a verify() that fails, because the record is cancelled, expired or
\* already applied, leaves the record as it was: no step of it changes the
\* row, its verified, verified_by_user_id and verified_date included.
C37_FailedVerifyKeepsRecord ==
  [][\A h \in Handles :
       VerifyBoundToFail(h) /\ hpc'[h] # hpc[h] => winnings' = winnings]_vars

\* The save() that saver v is running is bound to be rejected: one of its
\* sectors names a prize no row of prizes holds.
SaveBoundToFail(v) ==
  /\ wpc[v] \in {"w_default", "w_prizes"}
  /\ Len(wloc[v].sectors_config) > 0
  /\ ~validateSectorsConfiguration(wloc[v].sectors_config)

\* C38: a save() of a wheel that is rejected because a sector's prize does
\* not resolve changes no stored row: the default wheel of the category is
\* still the default.
C38_RejectedSaveKeepsWheels ==
  [][\A v \in Savers :
       SaveBoundToFail(v) /\ wpc'[v] # wpc[v] => wheels' = wheels]_vars

\* The step is one of an apply() by handler h: its call, or its return from
\* Prize.findByPk and applyToClient.
ApplyStep(h) ==
  \/ ApplyCalled(h) /\ hpc'[h] = "apply_find"
  \/ hpc[h] = "apply_find" /\ hpc'[h] # "apply_find"

\* C39: an apply() of a pending record whose prize has auto_apply = false
\* runs no side effect, saves nothing and sends no notification: it returns
\* applied = false with the reason that the prize is redeemed manually, the
\* copy it was called on is still pending and redeemed_count is unchanged.
C39_ManualPrizeNotApplied ==
  [][\A h \in Handles :
       ApplyStep(h) /\ ~prize.auto_apply
       => /\ winnings' = winnings
          /\ inst' = inst
          /\ inst[h].row.status = "pending"
          /\ prize' = prize
          /\ clients' = clients
          /\ effects' = effects
          /\ lateEffect' = lateEffect
          /\ notified' = notified
          /\ hpc[h] = "apply_find"
               => /\ hpc'[h] = "idle"
                  /\ outcome'[h] = Ended("apply", "not_applied",
                                         "Premio requiere canje manual")]_vars

\* An apply() of a record of a manually redeemed prize returned applied =
\* false, and the record, left pending, has been redeemed by a redeem() call:
\* redeemed_count is 1, no side effect ran and only the redemption was
\* announced.
C39_Witness ==
  /\ ~prize.auto_apply
  /\ outcome["h1"] = Ended("apply", "not_applied", "Premio requiere canje manual")
  /\ outcome["h2"] = Ended("redeem", "ok", "none")
  /\ inst["h1"].id = inst["h2"].id
  /\ inst["h1"].row.status = "pending"
  /\ winnings[inst["h2"].id].status = "redeemed"
  /\ prize.redeemed_count = 1
  /\ effects[inst["h2"].id] = 0
  /\ notified[inst["h2"].id].won = 0
  /\ notified[inst["h2"].id].redeemed = 1

====
